---- MODULE Spec2Model ----
(***************************************************************************)
(* A model of the i18next translation server: the translation store        *)
(* (FileManager), the key mutation engine (KeyManager) and the sync tools  *)
(* of the tool surface (I18nTranslationServer).                            *)
(*                                                                         *)
(* JSON documents.  A JSON value is a tree, written as the set of its      *)
(* nodes: each node is [p |-> path from the root, k |-> kind], the kind    *)
(* being "obj" for an object, "null" for null, or a string leaf's text.    *)
(* The empty set is JavaScript's undefined.  A key path "a.b" is the       *)
(* sequence <<"a","b">> that path.split('.') yields.  Objects are          *)
(* enumerated in sorted key order, the order in which saveTranslationFile  *)
(* writes them.                                                            *)
(***************************************************************************)
EXTENDS Integers, Sequences, FiniteSets, TLC

VARIABLES
  files,       \* the locales directory: pair -> [kind, doc, mtime]
  cache,       \* FileManager.cache: pair -> [has, doc, mtime]
  clock,       \* the file system's time, stamped on every write
  backupOn,    \* config.backup.enabled
  pre,         \* the files as they were when the tool call started
  call,        \* the call made: operation and arguments
  result,      \* what the call returned
  saves,       \* the saveTranslationFile calls the call issued, in order
  operationsInProgress,  \* FileManager.operationsInProgress
  procs,       \* the store calls in flight: caller -> where its call stands
  watching,    \* whether watchFiles has installed the watcher
  events,      \* the files with a change notification not yet delivered
  server       \* I18nTranslationServer: its managers, initialization state
               \* and the tool calls in flight

vars == <<files, cache, clock, backupOn, pre, call, result, saves, server,
          operationsInProgress, procs, watching, events, server>>

storeVars == <<operationsInProgress, procs, watching, events>>

----------------------------------------------------------------------------
(* Configuration: config.languages, config.namespaces, defaultLanguage.    *)

Languages == <<"en", "es">>
Namespaces == <<"common", "extra">>
defaultLanguage == "en"

Keys == <<"a", "b", "n_one">>

RECURSIVE Range(_)
Range(s) == IF s = <<>> THEN {} ELSE {Head(s)} \cup Range(Tail(s))

Pairs == Range(Languages) \X Range(Namespaces)

----------------------------------------------------------------------------
(* JSON trees.                                                             *)

Undefined == {}
Leaf(v) == {[p |-> <<>>, k |-> v]}
EmptyObject == {[p |-> <<>>, k |-> "obj"]}

IsPrefix(s, t) == Len(s) <= Len(t) /\ SubSeq(t, 1, Len(s)) = s

\* typeof v, for the kinds of value a translation document holds
Kind(t) ==
  IF \E e \in t : e.p = <<>> THEN (CHOOSE e \in t : e.p = <<>>).k ELSE "undefined"

IsObject(t) == Kind(t) = "obj"

\* current[key]
Prop(t, key) ==
  {[p |-> Tail(e.p), k |-> e.k] : e \in {e \in t : e.p # <<>> /\ Head(e.p) = key}}

\* key in current
HasProp(t, key) == Prop(t, key) # Undefined

\* Object.keys(current)
OwnKeys(t) == {Head(e.p) : e \in {e \in t : e.p # <<>>}}

\* current[key] = v   (v = Undefined leaves no property behind once the
\* document is serialised: JSON.stringify drops undefined members)
PutProp(t, key, v) ==
  {e \in t : e.p = <<>> \/ Head(e.p) # key}
    \cup {[p |-> <<key>> \o e.p, k |-> e.k] : e \in v}

\* delete current[key]
DelProp(t, key) == {e \in t : e.p = <<>> \/ Head(e.p) # key}

----------------------------------------------------------------------------
(* Key paths (KeyManager's private helpers).                               *)

\* path.split('.').reduce((current, key) =>
\*   current && typeof current === 'object' ? current[key] : undefined, obj)
RECURSIVE getNestedValue(_, _)
getNestedValue(obj, path) ==
  IF path = <<>> THEN obj
  ELSE getNestedValue(IF IsObject(obj) THEN Prop(obj, Head(path)) ELSE Undefined,
                      Tail(path))

\* Deep clone, walk keys[0 .. n-2] replacing whatever is not a non-null object
\* by {}, then current[keys[n-1]] = value.
RECURSIVE setNestedValue(_, _, _)
setNestedValue(obj, path, value) ==
  IF Len(path) = 1 THEN PutProp(obj, Head(path), value)
  ELSE LET key == Head(path)
           child == Prop(obj, key)
           current == IF ~HasProp(obj, key) \/ Kind(child) # "obj"
                      THEN EmptyObject ELSE child
       IN PutProp(obj, key, setNestedValue(current, Tail(path), value))

\* The walk of deleteNestedValue steps into null (typeof null === 'object')
\* and the next access on it raises a TypeError.
RECURSIVE deleteThrows(_, _)
deleteThrows(obj, path) ==
  IF Len(path) = 1 THEN FALSE
  ELSE LET key == Head(path)
           child == Prop(obj, key)
       IN IF ~HasProp(obj, key) \/ Kind(child) \notin {"obj", "null"} THEN FALSE
          ELSE IF Kind(child) = "null" THEN TRUE
          ELSE deleteThrows(child, Tail(path))

\* delete current[keys[n-1]] after the walk; the document itself when the walk
\* finds the path absent.
RECURSIVE deleteLeaf(_, _)
deleteLeaf(obj, path) ==
  IF Len(path) = 1 THEN DelProp(obj, Head(path))
  ELSE LET key == Head(path)
           child == Prop(obj, key)
       IN IF ~HasProp(obj, key) \/ Kind(child) # "obj" THEN obj
          ELSE PutProp(obj, key, deleteLeaf(child, Tail(path)))

\* whether the walk of deleteNestedValue reaches the parent of the last key
RECURSIVE walkReaches(_, _)
walkReaches(obj, path) ==
  IF Len(path) = 1 THEN TRUE
  ELSE LET key == Head(path)
           child == Prop(obj, key)
       IN HasProp(obj, key) /\ Kind(child) = "obj" /\ walkReaches(child, Tail(path))

Front(s) == SubSeq(s, 1, Len(s) - 1)

RECURSIVE cleanupEmptyObjects(_, _)
cleanupEmptyObjects(obj, path) ==
  IF path = <<>> THEN obj
  ELSE LET target == getNestedValue(obj, path)
       IN IF IsObject(target) /\ OwnKeys(target) = {}
          THEN cleanupEmptyObjects(deleteLeaf(obj, path), Front(path))
          ELSE obj

deleteNestedValue(obj, path) ==
  IF ~walkReaches(obj, path) THEN obj
  ELSE cleanupEmptyObjects(deleteLeaf(obj, path), Front(path))

\* Depth-first over Object.entries; a non-null object is descended into,
\* anything else is a key.
RECURSIVE getAllKeysIn(_, _, _)
getAllKeysIn(obj, prefix, ks) ==
  IF ks = <<>> THEN <<>>
  ELSE LET key == Head(ks)
           value == Prop(obj, key)
           fullKey == prefix \o <<key>>
       IN (IF ~HasProp(obj, key) THEN <<>>
           ELSE IF Kind(value) = "obj" THEN getAllKeysIn(value, fullKey, Keys)
           ELSE <<fullKey>>)
          \o getAllKeysIn(obj, prefix, Tail(ks))

getAllKeys(obj) == getAllKeysIn(obj, <<>>, Keys)

\* array.includes / Set.has
Includes(s, x) == \E i \in 1..Len(s) : s[i] = x

RECURSIVE Filter(_, _)
Filter(s, keep) ==
  IF s = <<>> THEN <<>>
  ELSE (IF Head(s) \in keep THEN <<Head(s)>> ELSE <<>>) \o Filter(Tail(s), keep)

----------------------------------------------------------------------------
(* Documents written with the literals of JSON.                            *)

RECURSIVE FromFlat(_, _)
FromFlat(doc, entries) ==
  IF entries = <<>> THEN doc
  ELSE FromFlat(setNestedValue(doc, Head(entries)[1], Leaf(Head(entries)[2])),
                Tail(entries))

Doc(entries) == FromFlat(EmptyObject, entries)

----------------------------------------------------------------------------
(* The translation store (FileManager), one awaited call at a time.  A     *)
(* world w is [files, cache, clock, saves]; a call returns its outcome     *)
(* together with the world it leaves.                                      *)

AbsentFile == [kind |-> "absent", doc |-> Undefined, mtime |-> 0]
NoEntry == [has |-> FALSE, doc |-> Undefined, mtime |-> 0]

\* fs.copyFile(filePath, backupPath) rejects when filePath does not exist
createBackupFails(w, pair) == backupOn /\ w.files[pair].kind = "absent"

loadTranslationFile(w, pair) ==
  LET file == w.files[pair]
      cached == w.cache[pair]
  IN IF file.kind = "absent"
       THEN [ok |-> FALSE, err |-> "FileSystemError", content |-> Undefined, w |-> w]
     ELSE IF cached.has /\ cached.mtime >= file.mtime
       THEN [ok |-> TRUE, err |-> "", content |-> cached.doc, w |-> w]
     ELSE IF file.kind = "invalid"
       THEN [ok |-> FALSE, err |-> "ValidationError", content |-> Undefined, w |-> w]
     ELSE [ok |-> TRUE, err |-> "", content |-> file.doc,
           w |-> [w EXCEPT !.cache[pair] =
                    [has |-> TRUE, doc |-> file.doc, mtime |-> file.mtime]]]

saveTranslationFile(w, pair, content, createBackup) ==
  LET issued == [w EXCEPT !.saves = Append(@, [pair |-> pair, content |-> content])]
      \* sortObjectKeys orders the members of every object; a tree here is the
      \* set of its nodes, enumerated in sorted key order wherever it is read
      sortedContent == content
      now == w.clock + 1
  IN IF createBackup /\ createBackupFails(w, pair)
       THEN [ok |-> FALSE, err |-> "FileSystemError", w |-> issued]
     ELSE [ok |-> TRUE, err |-> "",
           w |-> [issued EXCEPT
                    !.clock = now,
                    !.files[pair] = [kind |-> "ok", doc |-> sortedContent,
                                     mtime |-> now],
                    !.cache[pair] = [has |-> TRUE, doc |-> sortedContent,
                                     mtime |-> now]]]

----------------------------------------------------------------------------
(* The key mutation engine (KeyManager).                                   *)

EmptyResult == [success |-> TRUE, operations |-> <<>>, conflicts |-> <<>>,
                errors |-> <<>>]

\* for (const language of languages) for (const namespace of namespaces)
RECURSIVE Product(_, _)
Product(languages, namespaces) ==
  IF languages = <<>> THEN <<>>
  ELSE [i \in 1..Len(namespaces) |-> <<Head(languages), namespaces[i]>>]
       \o Product(Tail(languages), namespaces)

\* a || b on strings: the empty string is falsy
Or(a, b) == IF a # "" THEN a ELSE b

RECURSIVE checkKeyConflictsIn(_, _, _, _)
checkKeyConflictsIn(w, key, pairs, conflicts) ==
  IF pairs = <<>> THEN [conflicts |-> conflicts, w |-> w]
  ELSE LET pair == Head(pairs)
           translationFile == loadTranslationFile(w, pair)
           existingValue == getNestedValue(translationFile.content, key)
       IN checkKeyConflictsIn(
            translationFile.w, key, Tail(pairs),
            IF translationFile.ok /\ existingValue # Undefined
            THEN Append(conflicts, [key |-> key, language |-> pair[1],
                                    namespace |-> pair[2],
                                    existingValue |-> existingValue])
            ELSE conflicts)

checkKeyConflicts(w, key, languages, namespaces) ==
  checkKeyConflictsIn(w, key, Product(languages, namespaces), <<>>)

OpEntry(type, key, newKey, pair, value) ==
  [type |-> type, key |-> key, newKey |-> newKey, language |-> pair[1],
   namespace |-> pair[2], value |-> value]

ErrEntry(what, pair, cause) ==
  [what |-> what, language |-> pair[1], namespace |-> pair[2], cause |-> cause]

\* the body of addKey's loop, for one target pair
addKeyAt(w, operation, pair, results) ==
  LET translationFile == loadTranslationFile(w, pair)
      value == Or(operation.value,
                  IF pair[1] = defaultLanguage THEN operation.defaultValue ELSE "")
      updated == setNestedValue(translationFile.content, operation.key, Leaf(value))
      saved == saveTranslationFile(translationFile.w, pair, updated, TRUE)
  IN IF ~translationFile.ok
       THEN [w |-> translationFile.w,
             results |-> [results EXCEPT
                            !.errors = Append(@, ErrEntry("add", pair,
                                                          translationFile.err)),
                            !.success = FALSE]]
     ELSE IF ~saved.ok
       THEN [w |-> saved.w,
             results |-> [results EXCEPT
                            !.errors = Append(@, ErrEntry("add", pair, saved.err)),
                            !.success = FALSE]]
     ELSE [w |-> saved.w,
           results |-> [results EXCEPT
                          !.operations = Append(@,
                             OpEntry("add", operation.key, <<>>, pair,
                                     Leaf(Or(operation.value,
                                             operation.defaultValue))))]]

RECURSIVE addKeyLoop(_, _, _, _)
addKeyLoop(w, operation, pairs, results) ==
  IF pairs = <<>> THEN [results |-> results, w |-> w]
  ELSE LET done == addKeyAt(w, operation, Head(pairs), results)
       IN addKeyLoop(done.w, operation, Tail(pairs), done.results)

\* addKey without its pre-flight conflict scan
addKey_NoPreflight(w, operation) ==
  addKeyLoop(w, operation, Product(operation.languages, operation.namespaces),
             EmptyResult)

addKey(w, operation) ==
  LET checked == checkKeyConflicts(w, operation.key, operation.languages,
                                   operation.namespaces)
  IN IF Len(checked.conflicts) > 0 /\ ~operation.overwrite
       THEN [results |-> [EmptyResult EXCEPT !.success = FALSE,
                                             !.conflicts = checked.conflicts],
             w |-> checked.w]
     ELSE addKeyLoop(checked.w, operation,
                     Product(operation.languages, operation.namespaces), EmptyResult)

\* renameKey's loop body saving the deletion and the insertion separately
renameKeyAt_TwoSaves(w, operation, pair, results) ==
  LET translationFile == loadTranslationFile(w, pair)
      existingValue == getNestedValue(translationFile.content, operation.oldKey)
      deleted == deleteNestedValue(translationFile.content, operation.oldKey)
      first == saveTranslationFile(translationFile.w, pair, deleted, TRUE)
      saved == saveTranslationFile(first.w, pair,
                 setNestedValue(deleted, operation.newKey, existingValue), TRUE)
  IN IF ~translationFile.ok \/ existingValue = Undefined
       THEN [w |-> translationFile.w,
             results |-> [results EXCEPT
                            !.errors = Append(@, ErrEntry("not found", pair, ""))]]
     ELSE [w |-> saved.w,
           results |-> [results EXCEPT
                          !.operations = Append(@,
                             OpEntry("rename", operation.oldKey, operation.newKey,
                                     pair, existingValue))]]

\* renameKey's loop body giving up on the whole document where oldKey is absent
\* without recording it
renameKeyAt_SilentSkip(w, operation, pair, results) ==
  LET translationFile == loadTranslationFile(w, pair)
      existingValue == getNestedValue(translationFile.content, operation.oldKey)
      updated == setNestedValue(
                   deleteNestedValue(translationFile.content, operation.oldKey),
                   operation.newKey, existingValue)
      saved == saveTranslationFile(translationFile.w, pair, updated, TRUE)
  IN IF ~translationFile.ok \/ existingValue = Undefined
       THEN [w |-> translationFile.w, results |-> results]
     ELSE [w |-> saved.w,
           results |-> [results EXCEPT
                          !.operations = Append(@,
                             OpEntry("rename", operation.oldKey, operation.newKey,
                                     pair, existingValue))]]

\* the body of renameKey's loop, for one target pair
renameKeyAt(w, operation, pair, results) ==
  LET translationFile == loadTranslationFile(w, pair)
      existingValue == getNestedValue(translationFile.content, operation.oldKey)
      updated == setNestedValue(
                   deleteNestedValue(translationFile.content, operation.oldKey),
                   operation.newKey, existingValue)
      saved == saveTranslationFile(translationFile.w, pair, updated, TRUE)
  IN IF ~translationFile.ok
       THEN [w |-> translationFile.w,
             results |-> [results EXCEPT
                            !.errors = Append(@, ErrEntry("rename", pair,
                                                          translationFile.err)),
                            !.success = FALSE]]
     ELSE IF existingValue = Undefined
       THEN [w |-> translationFile.w,
             results |-> [results EXCEPT
                            !.errors = Append(@, ErrEntry("not found", pair, ""))]]
     ELSE IF ~saved.ok
       THEN [w |-> saved.w,
             results |-> [results EXCEPT
                            !.errors = Append(@, ErrEntry("rename", pair, saved.err)),
                            !.success = FALSE]]
     ELSE [w |-> saved.w,
           results |-> [results EXCEPT
                          !.operations = Append(@,
                             OpEntry("rename", operation.oldKey, operation.newKey,
                                     pair, existingValue))]]

RECURSIVE renameKeyLoop(_, _, _, _)
renameKeyLoop(w, operation, pairs, results) ==
  IF pairs = <<>> THEN [results |-> results, w |-> w]
  ELSE LET done == renameKeyAt(w, operation, Head(pairs), results)
       IN renameKeyLoop(done.w, operation, Tail(pairs), done.results)

\* renameKey without its pre-flight conflict scan
renameKey_NoPreflight(w, operation) ==
  renameKeyLoop(w, operation, Product(operation.languages, operation.namespaces),
                EmptyResult)

renameKey(w, operation) ==
  LET checked == checkKeyConflicts(w, operation.newKey, operation.languages,
                                   operation.namespaces)
  IN IF Len(checked.conflicts) > 0 /\ ~operation.overwrite
       THEN [results |-> [EmptyResult EXCEPT !.success = FALSE,
                                             !.conflicts = checked.conflicts],
             w |-> checked.w]
     ELSE renameKeyLoop(checked.w, operation,
                        Product(operation.languages, operation.namespaces),
                        EmptyResult)

\* syncKeys' loop over the keys missing from one target namespace: every
\* iteration sets its key in targetFile.content, the content as loaded before
\* the loop, and saves the outcome.
RECURSIVE syncMissingLoop(_, _, _, _, _, _, _)
syncMissingLoop(w, pair, sourceContent, targetContent, missingKeys, copyValues, results) ==
  IF missingKeys = <<>> THEN [results |-> results, w |-> w, threw |-> FALSE]
  ELSE LET key == Head(missingKeys)
           sourceValue == getNestedValue(sourceContent, key)
           valueToSet == IF copyValues THEN sourceValue ELSE Leaf("")
           updated == setNestedValue(targetContent, key, valueToSet)
           saved == saveTranslationFile(w, pair, updated, TRUE)
       IN IF ~saved.ok
            THEN [results |-> [results EXCEPT
                                 !.success = FALSE,
                                 !.errors = Append(@, ErrEntry("sync", pair, saved.err))],
                  w |-> saved.w, threw |-> TRUE]
          ELSE syncMissingLoop(saved.w, pair, sourceContent, targetContent,
                               Tail(missingKeys), copyValues,
                               [results EXCEPT
                                  !.operations = Append(@,
                                     OpEntry("sync", key, <<>>, pair, valueToSet))])

\* syncKeys' loop over the target namespaces
RECURSIVE syncKeysLoop(_, _, _, _, _, _)
syncKeysLoop(w, language, sourceContent, targetNamespaces, copyValues, results) ==
  IF targetNamespaces = <<>> THEN [results |-> results, w |-> w]
  ELSE LET pair == <<language, Head(targetNamespaces)>>
           targetFile == loadTranslationFile(w, pair)
           sourceKeys == getAllKeys(sourceContent)
           targetKeys == getAllKeys(targetFile.content)
           missingKeys == Filter(sourceKeys, {k \in Range(sourceKeys) :
                                                ~Includes(targetKeys, k)})
           synced == syncMissingLoop(targetFile.w, pair, sourceContent,
                                     targetFile.content, missingKeys, copyValues,
                                     results)
       IN IF ~targetFile.ok
            THEN [results |-> [results EXCEPT
                                 !.success = FALSE,
                                 !.errors = Append(@, ErrEntry("sync", pair,
                                                               targetFile.err))],
                  w |-> targetFile.w]
          ELSE IF synced.threw THEN [results |-> synced.results, w |-> synced.w]
          ELSE syncKeysLoop(synced.w, language, sourceContent,
                            Tail(targetNamespaces), copyValues, synced.results)

syncKeys(w, sourceNamespace, targetNamespaces, language, copyValues) ==
  LET sourceFile == loadTranslationFile(w, <<language, sourceNamespace>>)
  IN IF ~sourceFile.ok
       THEN [results |-> [EmptyResult EXCEPT
                            !.success = FALSE,
                            !.errors = <<ErrEntry("sync", <<language, sourceNamespace>>,
                                                  sourceFile.err)>>],
             w |-> sourceFile.w]
     ELSE syncKeysLoop(sourceFile.w, language, sourceFile.content, targetNamespaces,
                       copyValues, EmptyResult)

\* the body of removeKey's loop, for one target pair: whatever is thrown, the
\* TypeError of deleteNestedValue included, is caught and recorded
removeKeyAt(w, operation, pair, results) ==
  LET translationFile == loadTranslationFile(w, pair)
      updated == deleteNestedValue(translationFile.content, operation.key)
      saved == saveTranslationFile(translationFile.w, pair, updated, TRUE)
  IN IF ~translationFile.ok
       THEN [w |-> translationFile.w,
             results |-> [results EXCEPT
                            !.errors = Append(@, ErrEntry("remove", pair,
                                                          translationFile.err)),
                            !.success = FALSE]]
     ELSE IF deleteThrows(translationFile.content, operation.key)
       THEN [w |-> translationFile.w,
             results |-> [results EXCEPT
                            !.errors = Append(@, ErrEntry("remove", pair, "TypeError")),
                            !.success = FALSE]]
     ELSE IF ~saved.ok
       THEN [w |-> saved.w,
             results |-> [results EXCEPT
                            !.errors = Append(@, ErrEntry("remove", pair, saved.err)),
                            !.success = FALSE]]
     ELSE [w |-> saved.w,
           results |-> [results EXCEPT
                          !.operations = Append(@,
                             OpEntry("remove", operation.key, <<>>, pair, Undefined))]]

RECURSIVE removeKeyLoop(_, _, _, _)
removeKeyLoop(w, operation, pairs, results) ==
  IF pairs = <<>> THEN [results |-> results, w |-> w]
  ELSE LET done == removeKeyAt(w, operation, Head(pairs), results)
       IN removeKeyLoop(done.w, operation, Tail(pairs), done.results)

removeKey(w, operation) ==
  removeKeyLoop(w, operation, Product(operation.languages, operation.namespaces),
                EmptyResult)

\* switch (operation.type): an unknown type throws, which the loop's catch
\* records as a failed operation
applyOperation(w, operation) ==
  IF operation.type = "add" THEN addKey(w, operation)
  ELSE IF operation.type = "remove" THEN removeKey(w, operation)
  ELSE IF operation.type = "rename" THEN renameKey(w, operation)
  ELSE [results |-> [EmptyResult EXCEPT
                       !.success = FALSE,
                       !.errors = <<ErrEntry("batch", <<"", "">>,
                                             "Unknown operation type")>>],
        w |-> w]

\* batchOperation's loop over operations.operations
RECURSIVE batchLoop(_, _, _, _)
batchLoop(w, operations, continueOnError, results) ==
  IF operations = <<>> THEN [results |-> results, w |-> w]
  ELSE LET operation == Head(operations)
           done == applyOperation(w, operation)
           operationResult == done.results
           merged == [results EXCEPT
                        !.operations = @ \o operationResult.operations,
                        !.conflicts = @ \o operationResult.conflicts,
                        !.errors = @ \o operationResult.errors,
                        !.success = @ /\ operationResult.success]
       IN IF ~operationResult.success /\ ~continueOnError
            THEN [results |-> merged, w |-> done.w]
          ELSE batchLoop(done.w, Tail(operations), continueOnError, merged)

\* createBackup is handed the label `batch-operation-<time>` where it expects
\* the path of a file: with backups enabled fs.copyFile finds no such file
batchBackupFails == backupOn

batchOperation(w, operations) ==
  LET backupFailed == operations.createBackup /\ batchBackupFails
      started == IF backupFailed
                 THEN [EmptyResult EXCEPT
                         !.errors = <<ErrEntry("backup", <<"", "">>, "FileSystemError")>>]
                 ELSE EmptyResult
  IN IF backupFailed /\ ~operations.continueOnError
       THEN [results |-> [started EXCEPT !.success = FALSE], w |-> w]
     ELSE batchLoop(w, operations.operations, operations.continueOnError, started)

----------------------------------------------------------------------------
(* The tool surface (I18nTranslationServer).                               *)

\* parsed.placeholder || (typeof sourceValue === 'string' ? sourceValue : '')
syncValue(placeholder, sourceValue) ==
  Or(placeholder,
     IF Kind(sourceValue) \in {"obj", "null", "undefined"} THEN "" ELSE Kind(sourceValue))

\* add_translation_key: one addKey call per namespace and per entry of
\* translations, each with that single language and namespace as its targets
RECURSIVE handleAddTranslationKeyLoop(_, _, _, _)
handleAddTranslationKeyLoop(w, parsed, targets, results) ==
  IF targets = <<>> THEN [results |-> results, w |-> w]
  ELSE LET namespace == Head(targets)[1]
           language == Head(targets)[2][1]
           value == Head(targets)[2][2]
           added == addKey(w, [key |-> parsed.key, value |-> value,
                               defaultValue |-> value, languages |-> <<language>>,
                               namespaces |-> <<namespace>>,
                               overwrite |-> parsed.overwrite])
       IN handleAddTranslationKeyLoop(added.w, parsed, Tail(targets),
            Append(results, [language |-> language, namespace |-> namespace,
                             key |-> parsed.key, value |-> value,
                             success |-> added.results.success,
                             conflicts |-> added.results.conflicts,
                             errors |-> added.results.errors]))

handleAddTranslationKey(w, parsed) ==
  handleAddTranslationKeyLoop(w, parsed,
                              Product(parsed.namespaces, parsed.translations), <<>>)

\* sync_missing_keys, the keys missing from a target that loaded: one addKey
\* call per key, its result dropped
RECURSIVE syncAddMissing(_, _, _, _, _)
syncAddMissing(w, pair, sourceContent, missingKeys, placeholder) ==
  IF missingKeys = <<>> THEN w
  ELSE LET key == Head(missingKeys)
           value == syncValue(placeholder, getNestedValue(sourceContent, key))
           added == addKey(w, [key |-> key, value |-> value, defaultValue |-> value,
                               languages |-> <<pair[1]>>, namespaces |-> <<pair[2]>>,
                               overwrite |-> FALSE])
       IN syncAddMissing(added.w, pair, sourceContent, Tail(missingKeys), placeholder)

\* sync_missing_keys, the content written for a target that did not load
RECURSIVE newContentFrom(_, _, _, _)
newContentFrom(newContent, sourceContent, sourceKeys, placeholder) ==
  IF sourceKeys = <<>> THEN newContent
  ELSE LET key == Head(sourceKeys)
           value == syncValue(placeholder, getNestedValue(sourceContent, key))
       IN newContentFrom(setNestedValue(newContent, key, Leaf(value)), sourceContent,
                         Tail(sourceKeys), placeholder)

SyncOp(pair, missingKeys, action) ==
  [language |-> pair[1], namespace |-> pair[2], missingKeys |-> missingKeys,
   action |-> action]

\* sync_missing_keys, the loop over the target languages of one namespace
RECURSIVE syncLanguagesLoop(_, _, _, _, _, _)
syncLanguagesLoop(w, parsed, namespace, sourceContent, targetLanguages, operations) ==
  IF targetLanguages = <<>> THEN [operations |-> operations, w |-> w, threw |-> FALSE]
  ELSE LET pair == <<Head(targetLanguages), namespace>>
           sourceKeys == getAllKeys(sourceContent)
           targetFile == loadTranslationFile(w, pair)
           targetKeys == getAllKeys(targetFile.content)
           missingKeys == Filter(sourceKeys, {k \in Range(sourceKeys) :
                                                ~Includes(targetKeys, k)})
           saved == saveTranslationFile(
                      targetFile.w, pair,
                      newContentFrom(EmptyObject, sourceContent, sourceKeys,
                                     parsed.placeholder),
                      parsed.createBackup)
       IN IF targetFile.ok
            THEN IF Len(missingKeys) = 0
                   THEN syncLanguagesLoop(targetFile.w, parsed, namespace, sourceContent,
                                          Tail(targetLanguages), operations)
                 ELSE syncLanguagesLoop(
                        IF parsed.dryRun THEN targetFile.w
                        ELSE syncAddMissing(targetFile.w, pair, sourceContent,
                                            missingKeys, parsed.placeholder),
                        parsed, namespace, sourceContent, Tail(targetLanguages),
                        Append(operations,
                               SyncOp(pair, missingKeys,
                                      IF parsed.dryRun THEN "preview" ELSE "sync")))
          ELSE LET recorded == Append(operations,
                                 SyncOp(pair, sourceKeys,
                                        IF parsed.dryRun THEN "preview"
                                        ELSE "create_file"))
               IN IF parsed.dryRun
                    THEN syncLanguagesLoop(targetFile.w, parsed, namespace,
                                           sourceContent, Tail(targetLanguages),
                                           recorded)
                  ELSE IF ~saved.ok
                    THEN [operations |-> recorded, w |-> saved.w, threw |-> TRUE]
                  ELSE syncLanguagesLoop(saved.w, parsed, namespace, sourceContent,
                                         Tail(targetLanguages), recorded)

\* sync_missing_keys, the loop over the namespaces
RECURSIVE syncNamespacesLoop(_, _, _, _, _)
syncNamespacesLoop(w, parsed, namespaces, operations, errors) ==
  IF namespaces = <<>> THEN [operations |-> operations, errors |-> errors, w |-> w]
  ELSE LET namespace == Head(namespaces)
           sourceFile == loadTranslationFile(w, <<parsed.sourceLanguage, namespace>>)
           done == syncLanguagesLoop(sourceFile.w, parsed, namespace,
                                     sourceFile.content, parsed.targetLanguages,
                                     operations)
       IN IF ~sourceFile.ok
            THEN syncNamespacesLoop(sourceFile.w, parsed, Tail(namespaces), operations,
                   Append(errors, ErrEntry("process", <<parsed.sourceLanguage,
                                                        namespace>>, sourceFile.err)))
          ELSE syncNamespacesLoop(done.w, parsed, Tail(namespaces), done.operations,
                 IF done.threw
                 THEN Append(errors, ErrEntry("process", <<parsed.sourceLanguage,
                                                           namespace>>,
                                              "FileSystemError"))
                 ELSE errors)

handleSyncMissingKeys(w, parsed) ==
  LET done == syncNamespacesLoop(w, parsed, parsed.namespaces, <<>>, <<>>)
  IN [results |-> [success |-> Len(done.errors) = 0, dryRun |-> parsed.dryRun,
                   operations |-> done.operations, errors |-> done.errors],
      w |-> done.w]

\* sync_all_missing: sync_missing_keys from the default language to all others
handleSyncAllMissing(w, parsed) ==
  handleSyncMissingKeys(w,
    [sourceLanguage |-> defaultLanguage,
     targetLanguages |-> Filter(Languages, Range(Languages) \ {defaultLanguage}),
     namespaces |-> Namespaces, placeholder |-> parsed.placeholder,
     dryRun |-> parsed.dryRun, createBackup |-> parsed.createBackup])

\* get_missing_keys, the loop over the target languages of one namespace
RECURSIVE missingLanguagesLoop(_, _, _, _, _)
missingLanguagesLoop(w, namespace, sourceContent, targetLanguages, missingKeys) ==
  IF targetLanguages = <<>> THEN [missingKeys |-> missingKeys, w |-> w]
  ELSE LET pair == <<Head(targetLanguages), namespace>>
           sourceKeys == getAllKeys(sourceContent)
           targetFile == loadTranslationFile(w, pair)
           targetKeys == getAllKeys(targetFile.content)
           missing == Filter(sourceKeys, {k \in Range(sourceKeys) :
                                            ~Includes(targetKeys, k)})
       IN missingLanguagesLoop(targetFile.w, namespace, sourceContent,
            Tail(targetLanguages),
            IF ~targetFile.ok THEN [missingKeys EXCEPT ![pair] = sourceKeys]
            ELSE IF Len(missing) > 0 THEN [missingKeys EXCEPT ![pair] = missing]
            ELSE missingKeys)

\* get_missing_keys, the loop over the namespaces
RECURSIVE missingNamespacesLoop(_, _, _, _)
missingNamespacesLoop(w, parsed, namespaces, missingKeys) ==
  IF namespaces = <<>> THEN [missingKeys |-> missingKeys, w |-> w]
  ELSE LET namespace == Head(namespaces)
           sourceFile == loadTranslationFile(w, <<parsed.sourceLanguage, namespace>>)
           done == missingLanguagesLoop(sourceFile.w, namespace, sourceFile.content,
                                        parsed.targetLanguages, missingKeys)
       IN IF ~sourceFile.ok
            THEN missingNamespacesLoop(sourceFile.w, parsed, Tail(namespaces),
                                       missingKeys)
          ELSE missingNamespacesLoop(done.w, parsed, Tail(namespaces), done.missingKeys)

\* missingKeys[targetLanguage][namespace], <<>> where the tool records nothing
handleGetMissingKeys(w, parsed) ==
  LET done == missingNamespacesLoop(w, parsed, parsed.namespaces,
                                    [pair \in Pairs |-> <<>>])
  IN [results |-> [missingKeys |-> done.missingKeys], w |-> done.w]

\* sync_from_source, the loops over the target languages and the keys of one
\* namespace: one addKey call without overwrite per key found in the source
RECURSIVE syncFromSourceLoop(_, _, _, _, _, _, _)
syncFromSourceLoop(w, parsed, namespace, sourceContent, targets, results, errors) ==
  IF targets = <<>> THEN [results |-> results, errors |-> errors, w |-> w]
  ELSE LET targetLanguage == Head(targets)[1]
           key == Head(targets)[2]
           sourceValue == getNestedValue(sourceContent, key)
           value == IF parsed.copyValues
                         /\ Kind(sourceValue) \notin {"obj", "null", "undefined"}
                    THEN Kind(sourceValue) ELSE ""
           added == addKey(w, [key |-> key, value |-> value, defaultValue |-> value,
                               languages |-> <<targetLanguage>>,
                               namespaces |-> <<namespace>>, overwrite |-> FALSE])
       IN IF sourceValue = Undefined
            THEN syncFromSourceLoop(w, parsed, namespace, sourceContent, Tail(targets),
                   results,
                   Append(errors, ErrEntry("not found", <<parsed.sourceLanguage,
                                                         namespace>>, key)))
          ELSE syncFromSourceLoop(added.w, parsed, namespace, sourceContent,
                 Tail(targets),
                 Append(results, [key |-> key, language |-> targetLanguage,
                                  namespace |-> namespace, value |-> value,
                                  success |-> added.results.success,
                                  conflicts |-> added.results.conflicts,
                                  errors |-> added.results.errors]),
                 errors)

\* sync_from_source, the loop over the namespaces
RECURSIVE syncFromSourceNamespaces(_, _, _, _, _)
syncFromSourceNamespaces(w, parsed, namespaces, results, errors) ==
  IF namespaces = <<>> THEN [results |-> results, errors |-> errors, w |-> w]
  ELSE LET namespace == Head(namespaces)
           sourceFile == loadTranslationFile(w, <<parsed.sourceLanguage, namespace>>)
           done == syncFromSourceLoop(sourceFile.w, parsed, namespace,
                                      sourceFile.content,
                                      Product(parsed.targetLanguages, parsed.keys),
                                      results, errors)
       IN IF ~sourceFile.ok
            THEN syncFromSourceNamespaces(sourceFile.w, parsed, Tail(namespaces),
                   results,
                   Append(errors, ErrEntry("load source", <<parsed.sourceLanguage,
                                                           namespace>>,
                                           sourceFile.err)))
          ELSE syncFromSourceNamespaces(done.w, parsed, Tail(namespaces),
                                        done.results, done.errors)

handleSyncFromSource(w, parsed) ==
  LET done == syncFromSourceNamespaces(w, parsed, parsed.namespaces, <<>>, <<>>)
  IN [results |-> [success |-> Len(done.errors) = 0, results |-> done.results,
                   errors |-> done.errors],
      w |-> done.w]

----------------------------------------------------------------------------
(* One tool call on a locales directory.                                   *)

D1 == Doc(<< <<<<"a">>, "x">> >>)
D2 == Doc(<< <<<<"a", "b">>, "x">>, <<<<"b">>, "y">> >>)

InitDocs == {D1, D2}

OkFile(doc) == [kind |-> "ok", doc |-> doc, mtime |-> 0]
InvalidFile == [kind |-> "invalid", doc |-> Undefined, mtime |-> 0]

FileStates == {AbsentFile, InvalidFile} \cup {OkFile(doc) : doc \in InitDocs}

KeyPaths == {<<"a">>, <<"b">>, <<"a", "b">>, <<"b", "a">>}
Values == {"", "v"}
LanguageLists == {<<"en">>, <<"es">>, <<"en", "es">>}
NamespaceLists == {<<"common">>, <<"extra">>, <<"common", "extra">>}
TranslationLists == {<< <<"en", "v">> >>, << <<"es", "v">> >>,
                     << <<"en", "v">>, <<"es", "w">> >>}

Callers == {1, 2}

IdleCall == [pc |-> "idle", pair |-> <<>>, content |-> Undefined, stats |-> 0,
             returned |-> Undefined, live |-> FALSE]

\* I18nTranslationServer's fields after construction: every manager null,
\* no initialization under way, no tool call received
maxInitializationAttempts == 3

operationTimeout == 30000

NoRequest == [pc |-> "idle", name |-> "", elapsed |-> 0,
              response |-> [isError |-> FALSE, text |-> ""]]

ServerStart == [managers |-> {}, isInitializing |-> FALSE,
                initializationAttempts |-> 0,
                requests |-> [q \in Callers |-> NoRequest]]

World == [files |-> files, cache |-> cache, clock |-> clock, saves |-> saves]

\* the call returns `done` having been given `args`
Returns(op, args, done) ==
  /\ call' = [op |-> op, args |-> args]
  /\ result' = done.results
  /\ files' = done.w.files
  /\ cache' = done.w.cache
  /\ clock' = done.w.clock
  /\ saves' = done.w.saves
  /\ UNCHANGED <<backupOn, pre, storeVars, server>>

Idle == call.op = "none"

Init ==
  /\ files \in [Pairs -> FileStates]
  /\ cache = [pair \in Pairs |-> NoEntry]
  /\ clock = 0
  /\ backupOn \in BOOLEAN
  /\ pre = files
  /\ call = [op |-> "none", args |-> <<>>]
  /\ result = <<>>
  /\ saves = <<>>
  /\ operationsInProgress = {}
  /\ procs = [q \in Callers |-> IdleCall]
  /\ watching = FALSE
  /\ events = {}
  /\ server = ServerStart

AddKey ==
  /\ Idle
  /\ \E key \in KeyPaths, value \in Values, languages \in LanguageLists,
     namespaces \in NamespaceLists, overwrite \in BOOLEAN :
    LET operation == [key |-> key, value |-> value, defaultValue |-> "d",
                      languages |-> languages, namespaces |-> namespaces,
                      overwrite |-> overwrite]
    IN Returns("addKey", operation, addKey(World, operation))

RenameKey ==
  /\ Idle
  /\ \E oldKey \in KeyPaths, newKey \in KeyPaths, languages \in LanguageLists,
     namespaces \in NamespaceLists, overwrite \in BOOLEAN :
    LET operation == [oldKey |-> oldKey, newKey |-> newKey, languages |-> languages,
                      namespaces |-> namespaces, overwrite |-> overwrite]
    IN Returns("renameKey", operation, renameKey(World, operation))

SyncKeys ==
  /\ Idle
  /\ \E sourceNamespace \in Range(Namespaces), targetNamespaces \in NamespaceLists,
     language \in Range(Languages), copyValues \in BOOLEAN :
    Returns("syncKeys",
            [sourceNamespace |-> sourceNamespace, targetNamespaces |-> targetNamespaces,
             language |-> language, copyValues |-> copyValues],
            syncKeys(World, sourceNamespace, targetNamespaces, language, copyValues))

AddTranslationKey ==
  /\ Idle
  /\ \E key \in KeyPaths, translations \in TranslationLists,
     namespaces \in NamespaceLists, overwrite \in BOOLEAN :
    LET parsed == [key |-> key, translations |-> translations,
                   namespaces |-> namespaces, overwrite |-> overwrite]
        done == handleAddTranslationKey(World, parsed)
    IN Returns("add_translation_key", parsed, done)

SyncMissingKeys ==
  /\ Idle
  /\ \E sourceLanguage \in Range(Languages), namespaces \in NamespaceLists,
     placeholder \in Values, dryRun \in BOOLEAN, createBackup \in BOOLEAN :
    LET parsed == [sourceLanguage |-> sourceLanguage,
                   targetLanguages |->
                     Filter(Languages, Range(Languages) \ {sourceLanguage}),
                   namespaces |-> namespaces, placeholder |-> placeholder,
                   dryRun |-> dryRun, createBackup |-> createBackup]
    IN Returns("sync_missing_keys", parsed, handleSyncMissingKeys(World, parsed))

SyncAllMissing ==
  /\ Idle
  /\ \E placeholder \in Values, dryRun \in BOOLEAN, createBackup \in BOOLEAN :
    LET parsed == [placeholder |-> placeholder, dryRun |-> dryRun,
                   createBackup |-> createBackup]
    IN Returns("sync_all_missing", parsed, handleSyncAllMissing(World, parsed))

GetMissingKeys ==
  /\ Idle
  /\ \E sourceLanguage \in Range(Languages), namespaces \in NamespaceLists :
    LET parsed == [sourceLanguage |-> sourceLanguage,
                   targetLanguages |->
                     Filter(Languages, Range(Languages) \ {sourceLanguage}),
                   namespaces |-> namespaces]
    IN Returns("get_missing_keys", parsed, handleGetMissingKeys(World, parsed))

KeyLists == {<<k>> : k \in KeyPaths} \cup {<<<<"a", "b">>, <<"b">>>>}

SyncFromSource ==
  /\ Idle
  /\ \E keys \in KeyLists, sourceLanguage \in Range(Languages),
     namespaces \in NamespaceLists, copyValues \in BOOLEAN :
    LET parsed == [keys |-> keys, sourceLanguage |-> sourceLanguage,
                   targetLanguages |->
                     Filter(Languages, Range(Languages) \ {sourceLanguage}),
                   namespaces |-> namespaces, copyValues |-> copyValues]
    IN Returns("sync_from_source", parsed, handleSyncFromSource(World, parsed))

Next ==
  \/ AddKey
  \/ RenameKey
  \/ SyncKeys
  \/ AddTranslationKey
  \/ SyncMissingKeys
  \/ SyncAllMissing
  \/ GetMissingKeys
  \/ SyncFromSource

Spec == Init /\ [][Next]_vars

----------------------------------------------------------------------------
(* One call of the mutation engine on the namespaces of one language, the  *)
(* documents holding empty objects and nulls as well.                      *)

EngineNamespaces == <<"common", "extra", "other">>
EnginePairs == {<<defaultLanguage, namespace>> : namespace \in Range(EngineNamespaces)}

\* {"a":{}}
D3 == PutProp(EmptyObject, "a", EmptyObject)
\* {"a":null,"b":"y"}
D4 == Doc(<< <<<<"a">>, "null">>, <<<<"b">>, "y">> >>)

EngineFileStates == {AbsentFile} \cup {OkFile(doc) : doc \in {D1, D2, D3, D4}}

EngineNamespaceLists ==
  {<<"common">>, <<"common", "extra">>, <<"extra", "other">>,
   <<"common", "extra", "other">>}

\* a KeyOperation of each type, with the fields the engine reads
Operation(type, key, newKey, namespaces, overwrite) ==
  [type |-> type, key |-> key, oldKey |-> key, newKey |-> newKey, value |-> "v",
   defaultValue |-> "d", languages |-> <<defaultLanguage>>,
   namespaces |-> namespaces, overwrite |-> overwrite]

BatchOperations ==
  {Operation("add", <<"b">>, <<>>, <<"common">>, FALSE),
   Operation("add", <<"a", "b">>, <<>>, <<"extra", "other">>, TRUE),
   Operation("remove", <<"a", "b">>, <<>>, <<"common", "extra">>, FALSE),
   Operation("remove", <<"b">>, <<>>, <<"other">>, FALSE),
   Operation("rename", <<"b">>, <<"b", "a">>, <<"common", "extra">>, FALSE),
   Operation("sync", <<"b">>, <<>>, <<"common">>, FALSE)}

BatchLists ==
  {<<operation>> : operation \in BatchOperations}
    \cup {<<first, second>> : first \in BatchOperations, second \in BatchOperations}

InitEngine ==
  /\ files \in [EnginePairs -> EngineFileStates]
  /\ cache = [pair \in EnginePairs |-> NoEntry]
  /\ clock = 0
  /\ backupOn \in BOOLEAN
  /\ pre = files
  /\ call = [op |-> "none", args |-> <<>>]
  /\ result = <<>>
  /\ saves = <<>>
  /\ operationsInProgress = {}
  /\ procs = [q \in Callers |-> IdleCall]
  /\ watching = FALSE
  /\ events = {}
  /\ server = ServerStart

RemoveKey ==
  /\ Idle
  /\ \E key \in KeyPaths, namespaces \in EngineNamespaceLists :
    LET operation == Operation("remove", key, <<>>, namespaces, FALSE)
    IN Returns("removeKey", operation, removeKey(World, operation))

RenameAcross ==
  /\ Idle
  /\ \E oldKey \in KeyPaths, newKey \in KeyPaths, namespaces \in EngineNamespaceLists,
     overwrite \in BOOLEAN :
    LET operation == Operation("rename", oldKey, newKey, namespaces, overwrite)
    IN Returns("renameKey", operation, renameKey(World, operation))

SyncAcross ==
  /\ Idle
  /\ \E sourceNamespace \in Range(EngineNamespaces),
     targetNamespaces \in EngineNamespaceLists, copyValues \in BOOLEAN :
    Returns("syncKeys",
            [sourceNamespace |-> sourceNamespace, targetNamespaces |-> targetNamespaces,
             language |-> defaultLanguage, copyValues |-> copyValues],
            syncKeys(World, sourceNamespace, targetNamespaces, defaultLanguage,
                     copyValues))

BatchOperation ==
  /\ Idle
  /\ \E list \in BatchLists, createBackup \in BOOLEAN, continueOnError \in BOOLEAN :
    LET operations == [operations |-> list, createBackup |-> createBackup,
                       continueOnError |-> continueOnError]
    IN Returns("batchOperation", operations, batchOperation(World, operations))

NextEngine ==
  \/ RemoveKey
  \/ RenameAcross
  \/ SyncAcross
  \/ BatchOperation

SpecEngine == InitEngine /\ [][NextEngine]_vars

----------------------------------------------------------------------------
(* Strings.  A string value is the sequence of its characters; the strings *)
(* the documents and the key names of the model are written with are       *)
(* spelled out here.                                                       *)

Characters(text) ==
  CASE text = "" -> <<>>
    [] text = "x" -> <<"x">>
    [] text = "y" -> <<"y">>
    [] text = "v" -> <<"v">>
    [] text = "d" -> <<"d">>
    [] text = "w" -> <<"w">>
    [] text = "m" -> <<"m">>
    [] text = "Hello {{name}}" -> <<"H", "e", "l", "l", "o", " ", "{", "{", "n", "a", "m", "e", "}", "}">>
    [] text = "Hola" -> <<"H", "o", "l", "a">>
    [] text = "Hola {{ name }}" -> <<"H", "o", "l", "a", " ", "{", "{", " ", "n", "a", "m", "e", " ", "}", "}">>
    [] text = "Hola {{nombre}}" -> <<"H", "o", "l", "a", " ", "{", "{", "n", "o", "m", "b", "r", "e", "}", "}">>
    [] text = "{{name}} y {{name}}" -> <<"{", "{", "n", "a", "m", "e", "}", "}", " ", "y", " ", "{", "{", "n", "a", "m", "e", "}", "}">>
    [] text = "Hola {{name}" -> <<"H", "o", "l", "a", " ", "{", "{", "n", "a", "m", "e", "}">>
    [] text = "the end" -> <<"t", "h", "e", " ", "e", "n", "d">>
    [] text = "<b>Hola</b>" -> <<"<", "b", ">", "H", "o", "l", "a", "<", "/", "b", ">">>
    [] text = "a" -> <<"a">>
    [] text = "b" -> <<"b">>
    [] text = "n_one" -> <<"n", "_", "o", "n", "e">>
    [] text = "9" -> <<"9">>
    [] text = "10" -> <<"1", "0">>
    [] text = "Warning" ->
         <<"W", "a", "r", "n", "i", "n", "g">>
    [] text = "Warning: deprecated" ->
         <<"W", "a", "r", "n", "i", "n", "g", ":", " ", "d", "e", "p", "r", "e", "c",
         "a", "t", "e", "d">>
    [] text = "warning: x" ->
         <<"w", "a", "r", "n", "i", "n", "g", ":", " ", "x">>
    [] text = "Error: file not found" ->
         <<"E", "r", "r", "o", "r", ":", " ", "f", "i", "l", "e", " ", "n", "o", "t",
         " ", "f", "o", "u", "n", "d">>
    [] text = "Command failed" ->
         <<"C", "o", "m", "m", "a", "n", "d", " ", "f", "a", "i", "l", "e", "d">>
    [] text = "Scan completed" ->
         <<"S", "c", "a", "n", " ", "c", "o", "m", "p", "l", "e", "t", "e", "d">>
    [] text = "Found key:" ->
         <<"F", "o", "u", "n", "d", " ", "k", "e", "y", ":">>
    [] text = "Found key: a" ->
         <<"F", "o", "u", "n", "d", " ", "k", "e", "y", ":", " ", "a">>
    [] text = "- " ->
         <<"-", " ">>
    [] text = "- b" ->
         <<"-", " ", "b">>
    [] text = "- src/App.tsx" ->
         <<"-", " ", "s", "r", "c", "/", "A", "p", "p", ".", "t", "s", "x">>
    [] text = "Processing file:" ->
         <<"P", "r", "o", "c", "e", "s", "s", "i", "n", "g", " ", "f", "i", "l", "e",
         ":">>
    [] text = "Processing file: src/App.tsx" ->
         <<"P", "r", "o", "c", "e", "s", "s", "i", "n", "g", " ", "f", "i", "l", "e",
         ":", " ", "s", "r", "c", "/", "A", "p", "p", ".", "t", "s", "x">>
    [] text = "\"a\": \"x\"" ->
         <<"\"", "a", "\"", ":", " ", "\"", "x", "\"">>
    [] text = "t('a') t(\"b\")" ->
         <<"t", "(", "'", "a", "'", ")", " ", "t", "(", "\"", "b", "\"", ")">>
    [] text = "src/App.tsx" ->
         <<"s", "r", "c", "/", "A", "p", "p", ".", "t", "s", "x">>
    [] text = ".tsx" ->
         <<".", "t", "s", "x">>
    [] text = ".ts" ->
         <<".", "t", "s">>
    [] text = ".js" ->
         <<".", "j", "s">>
    [] text = ".jsx" ->
         <<".", "j", "s", "x">>
    [] text = ".vue" ->
         <<".", "v", "u", "e">>
    [] text = "/" ->
         <<"/">>
    [] text = "\\" ->
         <<"\\">>

WhiteSpace == {" ", "\t", "\n", "\r"}
LineTerminators == {"\n", "\r"}

UpperCase == <<"A", "B", "C", "D", "E", "F", "G", "H", "I", "J", "K", "L", "M",
               "N", "O", "P", "Q", "R", "S", "T", "U", "V", "W", "X", "Y", "Z">>
LowerCase == <<"a", "b", "c", "d", "e", "f", "g", "h", "i", "j", "k", "l", "m",
               "n", "o", "p", "q", "r", "s", "t", "u", "v", "w", "x", "y", "z">>
Digits == {"0", "1", "2", "3", "4", "5", "6", "7", "8", "9"}

toLowerCase(s) ==
  [i \in 1..Len(s) |->
     IF \E n \in DOMAIN UpperCase : UpperCase[n] = s[i]
     THEN LowerCase[CHOOSE n \in DOMAIN UpperCase : UpperCase[n] = s[i]]
     ELSE s[i]]

\* the literal occurs in s at position i
MatchesAt(s, i, literal) ==
  /\ i >= 1
  /\ i + Len(literal) - 1 <= Len(s)
  /\ SubSeq(s, i, i + Len(literal) - 1) = literal

\* String.prototype.includes, and a regular expression that is a literal
includes(s, literal) == \E i \in 1..(Len(s) + 1) : MatchesAt(s, i, literal)

\* (s.match(/literal/g) || []).length: matches are taken left to right and do
\* not overlap
RECURSIVE countMatches(_, _, _)
countMatches(s, i, literal) ==
  IF i > Len(s) THEN 0
  ELSE IF MatchesAt(s, i, literal)
    THEN 1 + countMatches(s, i + Len(literal), literal)
  ELSE countMatches(s, i + 1, literal)

RECURSIVE trimStart(_)
trimStart(s) ==
  IF s # <<>> /\ Head(s) \in WhiteSpace THEN trimStart(Tail(s)) ELSE s

RECURSIVE trimEnd(_)
trimEnd(s) ==
  IF s # <<>> /\ s[Len(s)] \in WhiteSpace THEN trimEnd(Front(s)) ELSE s

trim(s) == trimEnd(trimStart(s))

\* s.split(/\s+/): the pieces between the runs of white space, the empty
\* pieces at either end included
RECURSIVE split(_)
split(s) ==
  IF \A i \in 1..Len(s) : s[i] \notin WhiteSpace THEN <<s>>
  ELSE LET first == CHOOSE i \in 1..Len(s) :
                      /\ s[i] \in WhiteSpace
                      /\ \A k \in 1..(i - 1) : s[k] \notin WhiteSpace
           last == CHOOSE j \in first..Len(s) :
                     /\ \A k \in first..j : s[k] \in WhiteSpace
                     /\ j = Len(s) \/ s[j + 1] \notin WhiteSpace
       IN <<SubSeq(s, 1, first - 1)>> \o split(SubSeq(s, last + 1, Len(s)))

RECURSIVE Concat(_)
Concat(lists) == IF lists = <<>> THEN <<>> ELSE Head(lists) \o Concat(Tail(lists))

\* the dotted key of a key path, as a string
RECURSIVE keyString(_)
keyString(path) ==
  IF path = <<>> THEN <<>>
  ELSE IF Len(path) = 1 THEN Characters(Head(path))
  ELSE Characters(Head(path)) \o <<".">> \o keyString(Tail(path))

----------------------------------------------------------------------------
(* The health checker (HealthChecker).  Leaves of a document are strings,  *)
(* or one of null, an array, a number, a boolean (kinds "null", "array",   *)
(* "number", "boolean"); what an array holds is not looked at.             *)

typeOf(v) ==
  LET k == Kind(v)
  IN IF k \in {"obj", "null", "array"} THEN "object"
     ELSE IF k \in {"number", "boolean", "undefined"} THEN k
     ELSE "string"

\* the characters of a string value
StringOf(v) == Characters(Kind(v))

Issue(type, severity, file, key, details) ==
  [type |-> type, severity |-> severity, file |-> file, key |-> key,
   details |-> details]

\* depth-first over Object.entries: a non-null object that is not an array is
\* descended into, anything else is an entry of the result
RECURSIVE getAllKeysWithDetailsIn(_, _, _)
getAllKeysWithDetailsIn(obj, path, ks) ==
  IF ks = <<>> THEN <<>>
  ELSE LET key == Head(ks)
           value == Prop(obj, key)
           fullPath == path \o <<key>>
       IN (IF ~HasProp(obj, key) THEN <<>>
           ELSE IF Kind(value) = "obj" THEN getAllKeysWithDetailsIn(value, fullPath, Keys)
           ELSE <<[key |-> fullPath, value |-> value, path |-> fullPath,
                   type |-> typeOf(value)]>>)
          \o getAllKeysWithDetailsIn(obj, path, Tail(ks))

getAllKeysWithDetails(obj) == getAllKeysWithDetailsIn(obj, <<>>, Keys)

\* /\{\{\s*\}\}/ matches somewhere in s
hasEmptyInterpolation(s) ==
  \E i \in 1..Len(s), j \in 1..Len(s) :
    /\ MatchesAt(s, i, <<"{", "{">>)
    /\ j >= i + 2
    /\ \A k \in (i + 2)..(j - 1) : s[k] \in WhiteSpace
    /\ MatchesAt(s, j, <<"}", "}">>)

\* /\{[^{}]*\}[^}]|[^{]\{[^{}]*\}/ matches somewhere in s
hasMalformedInterpolation(s) ==
  \E i \in 1..Len(s), j \in 1..Len(s) :
    /\ i < j
    /\ s[i] = "{"
    /\ s[j] = "}"
    /\ \A k \in (i + 1)..(j - 1) : s[k] \notin {"{", "}"}
    /\ \/ j + 1 <= Len(s) /\ s[j + 1] # "}"
       \/ i >= 2 /\ s[i - 1] # "{"

validateInterpolation(value, keyPath, fileKey) ==
  IF typeOf(value) # "string" THEN <<>>
  ELSE LET s == StringOf(value)
           openBrackets == countMatches(s, 1, <<"{", "{">>)
           closeBrackets == countMatches(s, 1, <<"}", "}">>)
       IN (IF openBrackets # closeBrackets
           THEN <<Issue("interpolation_unbalanced", "error", fileKey, keyPath,
                        [openCount |-> openBrackets, closeCount |-> closeBrackets])>>
           ELSE <<>>)
          \o (IF hasEmptyInterpolation(s)
              THEN <<Issue("interpolation_empty", "warning", fileKey, keyPath, <<>>)>>
              ELSE <<>>)
          \o (IF hasMalformedInterpolation(s)
              THEN <<Issue("interpolation_malformed", "warning", fileKey, keyPath,
                           <<>>)>>
              ELSE <<>>)

PluralForms == {<<"o", "n", "e">>, <<"o", "t", "h", "e", "r">>, <<"z", "e", "r", "o">>,
                <<"t", "w", "o">>, <<"f", "e", "w">>, <<"m", "a", "n", "y">>}

\* key.match(/^(.+)_(one|other|zero|two|few|many)$/): [baseKey, pluralForm],
\* <<>> where the key does not match
pluralMatch(key) ==
  LET fits == {form \in PluralForms :
                 /\ Len(key) > Len(form) + 1
                 /\ MatchesAt(key, Len(key) - Len(form), <<"_">> \o form)
                 /\ \A k \in 1..(Len(key) - Len(form) - 1) :
                      key[k] \notin LineTerminators}
  IN IF fits = {} THEN <<>>
     ELSE LET form == CHOOSE form \in fits : TRUE
          IN <<SubSeq(key, 1, Len(key) - Len(form) - 1), form>>

getExpectedPluralForms(lang) == <<<<"o", "n", "e">>, <<"o", "t", "h", "e", "r">>>>

\* the base keys in the order they were first met, each once
RECURSIVE baseKeysOf(_, _)
baseKeysOf(matches, seen) ==
  IF matches = <<>> THEN <<>>
  ELSE IF Head(matches) = <<>> \/ Head(matches)[1] \in seen
    THEN baseKeysOf(Tail(matches), seen)
  ELSE <<Head(matches)[1]>> \o baseKeysOf(Tail(matches), seen \cup {Head(matches)[1]})

validatePluralization(keys, namespace, lang, fileKey) ==
  LET matches == SubSeq([i \in 1..Len(keys) |-> pluralMatch(keyString(keys[i].key))],
                        1, Len(keys))
      baseKeys == baseKeysOf(matches, {})
      formsOf(baseKey) ==
        {matches[i][2] : i \in {i \in 1..Len(keys) :
                                  matches[i] # <<>> /\ matches[i][1] = baseKey}}
      expectedForms == getExpectedPluralForms(lang)
      missingForms(baseKey) == Filter(expectedForms,
                                      Range(expectedForms) \ formsOf(baseKey))
  IN Concat([i \in 1..Len(baseKeys) |->
               IF Len(missingForms(baseKeys[i])) > 0
               THEN <<Issue("pluralization_missing_forms", "warning", fileKey, <<>>,
                            [baseKey |-> baseKeys[i],
                             found |-> formsOf(baseKeys[i]),
                             missing |-> missingForms(baseKeys[i])])>>
               ELSE <<>>])

englishWords ==
  {<<"t", "h", "e">>,
   <<"a", "n", "d">>,
   <<"o", "r">>,
   <<"b", "u", "t">>,
   <<"i", "n">>,
   <<"o", "n">>,
   <<"a", "t">>,
   <<"t", "o">>,
   <<"f", "o", "r">>,
   <<"o", "f">>,
   <<"w", "i", "t", "h">>,
   <<"b", "y">>}

isUntranslated(value, lang) ==
  LET words == split(toLowerCase(value))
      englishWordCount == Cardinality({i \in 1..Len(words) : words[i] \in englishWords})
  IN lang # "en" /\ 10 * englishWordCount > 3 * Len(words)

\* /^(test|todo|fixme|placeholder)/i, /lorem ipsum/i, /\[.*\]/, /xxx+/i
hasSuspiciousPattern(value) ==
  LET lower == toLowerCase(value)
  IN \/ \E word \in {<<"t", "e", "s", "t">>,
                     <<"t", "o", "d", "o">>,
                     <<"f", "i", "x", "m", "e">>,
                     <<"p", "l", "a", "c", "e", "h", "o", "l", "d", "e", "r">>} :
          MatchesAt(lower, 1, word)
     \/ includes(lower, <<"l", "o", "r", "e", "m", " ", "i", "p", "s", "u", "m">>)
     \/ \E i \in 1..Len(value), j \in 1..Len(value) :
          /\ i < j
          /\ value[i] = "["
          /\ value[j] = "]"
          /\ \A k \in (i + 1)..(j - 1) : value[k] \notin LineTerminators
     \/ includes(lower, <<"x", "x", "x">>)

\* /<[^>]+>/
containsHtml(value) ==
  \E i \in 1..Len(value), j \in 1..Len(value) :
    /\ j >= i + 2
    /\ value[i] = "<"
    /\ value[j] = ">"
    /\ \A k \in (i + 1)..(j - 1) : value[k] # ">"

\* the issue without its file and location, <<>> for null
validateTranslationLength(value, key) ==
  IF Len(value) > 2000 THEN <<[type |-> "quality_extremely_long", severity |-> "warning"]>>
  ELSE IF /\ Len(value) < 2
          /\ ~includes(keyString(key), <<"_", "s", "h", "o", "r", "t">>)
          /\ ~includes(keyString(key), <<"_", "a", "b", "b", "r">>)
    THEN <<[type |-> "quality_extremely_short", severity |-> "info"]>>
  ELSE <<>>

\* the issues of one entry of validateTranslationQuality's loop
qualityIssuesOf(detail, lang, namespace, fileKey) ==
  IF typeOf(detail.value) # "string" THEN <<>>
  ELSE LET value == StringOf(detail.value)
           lengthIssue == validateTranslationLength(value, detail.key)
       IN (IF lang # defaultLanguage /\ isUntranslated(value, lang)
           THEN <<Issue("quality_untranslated", "warning", fileKey, detail.key, <<>>)>>
           ELSE <<>>)
          \o (IF hasSuspiciousPattern(value)
              THEN <<Issue("quality_suspicious_content", "info", fileKey, detail.key,
                           <<>>)>>
              ELSE <<>>)
          \o (IF containsHtml(value)
              THEN <<Issue("quality_html_content", "info", fileKey, detail.key, <<>>)>>
              ELSE <<>>)
          \o (IF lengthIssue # <<>>
              THEN <<Issue(lengthIssue[1].type, lengthIssue[1].severity, fileKey,
                           detail.key, <<>>)>>
              ELSE <<>>)

validateTranslationQuality(keys, lang, namespace, fileKey) ==
  Concat([i \in 1..Len(keys) |-> qualityIssuesOf(keys[i], lang, namespace, fileKey)])

\* match.slice(2, -2) for every match of /\{\{([^}]*)\}\}/g, left to right
RECURSIVE interpolationVarsFrom(_, _)
interpolationVarsFrom(s, i) ==
  IF i > Len(s) THEN <<>>
  ELSE LET closes == {j \in (i + 2)..Len(s) : s[j] = "}"}
           j == CHOOSE j \in closes : \A k \in closes : j <= k
       IN IF /\ MatchesAt(s, i, <<"{", "{">>)
             /\ closes # {}
             /\ MatchesAt(s, j, <<"}", "}">>)
            THEN <<SubSeq(s, i + 2, j - 1)>> \o interpolationVarsFrom(s, j + 2)
          ELSE interpolationVarsFrom(s, i + 1)

\* the names as they stand between the brackets
extractInterpolationVars_Untrimmed(value) == interpolationVarsFrom(value, 1)

extractInterpolationVars(value) ==
  LET matches == interpolationVarsFrom(value, 1)
  IN [i \in 1..Len(matches) |-> trim(matches[i])]

\* keys[key]: the entry of the key, <<>> for undefined (key names that are
\* members of Object.prototype are not among those of the model)
DetailOf(keys, key) ==
  IF \E i \in 1..Len(keys) : keys[i].key = key
  THEN keys[CHOOSE i \in 1..Len(keys) : keys[i].key = key]
  ELSE <<>>

\* the issues of one entry of validateConsistency's loop over sourceKeys
consistencyIssuesOf(sourceDetail, targetKeys, namespace, fileKey) ==
  LET key == sourceDetail.key
      targetDetail == DetailOf(targetKeys, key)
      sourceValue == sourceDetail.value
      targetValue == targetDetail.value
      sourceVars == extractInterpolationVars(StringOf(sourceValue))
      targetVars == extractInterpolationVars(StringOf(targetValue))
      missingVars == Filter(sourceVars, Range(sourceVars) \ Range(targetVars))
      extraVars == Filter(targetVars, Range(targetVars) \ Range(sourceVars))
  IN IF targetDetail = <<>>
       THEN <<Issue("consistency_missing_key", "warning", fileKey, key, <<>>)>>
     ELSE (IF typeOf(sourceValue) # typeOf(targetValue)
           THEN <<Issue("consistency_type_mismatch", "error", fileKey, key,
                        [sourceType |-> typeOf(sourceValue),
                         targetType |-> typeOf(targetValue)])>>
           ELSE <<>>)
          \o (IF /\ typeOf(sourceValue) = "string"
                 /\ typeOf(targetValue) = "string"
                 /\ (Len(missingVars) > 0 \/ Len(extraVars) > 0)
              THEN <<Issue("consistency_interpolation_mismatch", "error", fileKey, key,
                           [sourceVars |-> sourceVars, targetVars |-> targetVars,
                            missing |-> missingVars, extra |-> extraVars])>>
              ELSE <<>>)

\* without the loop over the target's keys
validateConsistency_SourceOnly(sourceKeys, targetKeys, sourceLang, targetLang, namespace, fileKey) ==
  Concat([i \in 1..Len(sourceKeys) |->
            consistencyIssuesOf(sourceKeys[i], targetKeys, namespace, fileKey)])

validateConsistency(sourceKeys, targetKeys, sourceLang, targetLang, namespace, fileKey) ==
  Concat([i \in 1..Len(sourceKeys) |->
            consistencyIssuesOf(sourceKeys[i], targetKeys, namespace, fileKey)])
    \o Concat([i \in 1..Len(targetKeys) |->
                 IF DetailOf(sourceKeys, targetKeys[i].key) = <<>>
                 THEN <<Issue("consistency_orphaned_key", "info", fileKey,
                              targetKeys[i].key, <<>>)>>
                 ELSE <<>>])

\* /^[a-z][a-zA-Z0-9]*$/
isCamelCase(key) ==
  /\ key # <<>>
  /\ key[1] \in Range(LowerCase)
  /\ \A i \in 2..Len(key) : key[i] \in Range(LowerCase) \cup Range(UpperCase) \cup Digits

\* /^[a-z][a-z0-9_]*$/
isSnakeCase(key) ==
  /\ key # <<>>
  /\ key[1] \in Range(LowerCase)
  /\ \A i \in 2..Len(key) : key[i] \in Range(LowerCase) \cup Digits \cup {"_"}

validateNamingPatterns(keys, fileKey) ==
  LET camelCaseKeys == {i \in 1..Len(keys) : isCamelCase(keyString(keys[i].key))}
      snakeCaseKeys == {i \in 1..Len(keys) : isSnakeCase(keyString(keys[i].key))}
  IN IF camelCaseKeys # {} /\ snakeCaseKeys # {}
       THEN <<Issue("structure_inconsistent_naming", "info", fileKey, <<>>,
                    [camelCaseCount |-> Cardinality(camelCaseKeys),
                     snakeCaseCount |-> Cardinality(snakeCaseKeys)])>>
     ELSE <<>>

validateStructure(keys, fileKey) ==
  Concat([i \in 1..Len(keys) |->
            IF Len(keys[i].path) > 5
            THEN <<Issue("structure_deeply_nested", "info", fileKey, keys[i].key, <<>>)>>
            ELSE <<>>])
    \o validateNamingPatterns(keys, fileKey)

validatePerformance(keys, fileKey) ==
  (IF Len(keys) > 500
   THEN <<Issue("performance_large_namespace", "warning", fileKey, <<>>, <<>>)>>
   ELSE <<>>)
    \o Concat([i \in 1..Len(keys) |->
                 IF typeOf(keys[i].value) = "string"
                      /\ Len(StringOf(keys[i].value)) > 1000
                 THEN <<Issue("performance_long_translation", "info", fileKey,
                              keys[i].key, <<>>)>>
                 ELSE <<>>])

\* a value in a condition: objects are truthy, undefined is not
Truthy(v) == Kind(v) \notin {"undefined", "null", ""}

Min(a, b) == IF a < b THEN a ELSE b
Max(a, b) == IF a > b THEN a ELSE b

CountSeverity(issues, severity) ==
  Cardinality({i \in 1..Len(issues) : issues[i].severity = severity})

performCrossLanguageAnalysis(translations, languages, namespaces) ==
  Concat([n \in 1..Len(namespaces) |->
    LET namespace == namespaces[n]
        availableLanguages ==
          Filter(languages,
                 {lang \in Range(languages) :
                    /\ \E pair \in DOMAIN translations : pair[1] = lang
                    /\ <<lang, namespace>> \in DOMAIN translations
                    /\ Truthy(translations[<<lang, namespace>>])})
        missingLanguages == Filter(languages,
                                   Range(languages) \ Range(availableLanguages))
    IN IF Len(availableLanguages) < Len(languages)
         THEN <<Issue("cross_language_missing_files", "error", <<>>, <<>>,
                      [namespace |-> namespace,
                       missingLanguages |-> missingLanguages,
                       availableLanguages |-> availableLanguages])>>
       ELSE <<>>])

\* a warning weighing 3 instead of 2
calculateQualityScore_Three(keys, issues) ==
  LET totalKeys == Len(keys)
      errors == CountSeverity(issues, "error")
      warnings == CountSeverity(issues, "warning")
      score == Max(0, Min(100, 100 - errors * 10 - warnings * 3))
      grade == IF score >= 90 THEN "A"
               ELSE IF score >= 80 THEN "B"
               ELSE IF score >= 70 THEN "C"
               ELSE IF score >= 60 THEN "D"
               ELSE "F"
  IN [score |-> score, grade |-> grade, totalKeys |-> totalKeys,
      errorCount |-> errors, warningCount |-> warnings]

calculateQualityScore(keys, issues) ==
  LET totalKeys == Len(keys)
      errors == CountSeverity(issues, "error")
      warnings == CountSeverity(issues, "warning")
      score == Max(0, Min(100, 100 - errors * 10 - warnings * 2))
      grade == IF score >= 90 THEN "A"
               ELSE IF score >= 80 THEN "B"
               ELSE IF score >= 70 THEN "C"
               ELSE IF score >= 60 THEN "D"
               ELSE "F"
  IN [score |-> score, grade |-> grade, totalKeys |-> totalKeys,
      errorCount |-> errors, warningCount |-> warnings]

RECURSIVE Sum(_)
Sum(numbers) == IF numbers = <<>> THEN 0 ELSE Head(numbers) + Sum(Tail(numbers))

\* Math.round(totalScore / files.length) over Object.values(result.files)
calculateOverallScore(resultFiles, fileKeys) ==
  IF Len(fileKeys) = 0 THEN 0
  ELSE LET totalScore == Sum([i \in 1..Len(fileKeys) |->
                                resultFiles[fileKeys[i]].qualityScore.score])
       IN (2 * totalScore + Len(fileKeys)) \div (2 * Len(fileKeys))

generateRecommendations(summary, issues) ==
  LET issueTypes == {issues[i].type : i \in 1..Len(issues)}
  IN (IF summary.errors > 0 THEN <<"critical">> ELSE <<>>)
     \o (IF summary.warnings > 10 THEN <<"warnings">> ELSE <<>>)
     \o (IF summary.totalIssues = 0 THEN <<"excellent">>
         ELSE IF summary.totalIssues < 10 THEN <<"good">>
         ELSE IF summary.totalIssues < 50 THEN <<"moderate">>
         ELSE <<"many">>)
     \o (IF "interpolation_unbalanced" \in issueTypes THEN <<"fix brackets">> ELSE <<>>)
     \o (IF "consistency_missing_key" \in issueTypes THEN <<"run sync">> ELSE <<>>)
     \o (IF "quality_untranslated" \in issueTypes THEN <<"translate">> ELSE <<>>)

\* one file that does not load recorded twice
loadInto_Twice(w, pair, translations, issues) ==
  LET file == loadTranslationFile(w, pair)
      missing == Issue("file_missing", "error", pair, <<>>, <<>>)
  IN IF file.ok
       THEN [translations |-> [translations EXCEPT ![pair] = file.content],
             issues |-> issues, w |-> file.w]
     ELSE [translations |-> [translations EXCEPT ![pair] = EmptyObject],
           issues |-> issues \o <<missing, missing>>, w |-> file.w]

\* the body of performHealthCheck's first loop: a file that does not load is
\* recorded and stands as {}
loadInto(w, pair, translations, issues) ==
  LET file == loadTranslationFile(w, pair)
  IN IF file.ok
       THEN [translations |-> [translations EXCEPT ![pair] = file.content],
             issues |-> issues, w |-> file.w]
     ELSE [translations |-> [translations EXCEPT ![pair] = EmptyObject],
           issues |-> Append(issues,
                             Issue("file_missing", "error", pair, <<>>, <<>>)),
           w |-> file.w]

\* performHealthCheck's first loop, over the requested files
RECURSIVE loadTranslations(_, _, _, _)
loadTranslations(w, pairs, translations, issues) ==
  IF pairs = <<>> THEN [translations |-> translations, issues |-> issues, w |-> w]
  ELSE LET loaded == loadInto(w, Head(pairs), translations, issues)
       IN loadTranslations(loaded.w, Tail(pairs), loaded.translations, loaded.issues)

\* the issues performHealthCheck's second loop collects for one file
fileIssuesOf(translations, pair) ==
  LET language == pair[1]
      namespace == pair[2]
      fileKey == pair
      keys == getAllKeysWithDetails(translations[pair])
  IN Concat([i \in 1..Len(keys) |->
               validateInterpolation(keys[i].value, keys[i].key, fileKey)])
     \o validatePluralization(keys, namespace, language, fileKey)
     \o validateTranslationQuality(keys, language, namespace, fileKey)
     \o (IF language # defaultLanguage
         THEN validateConsistency(
                getAllKeysWithDetails(translations[<<defaultLanguage, namespace>>]),
                keys, defaultLanguage, language, namespace, fileKey)
         ELSE <<>>)
     \o validateStructure(keys, fileKey)
     \o validatePerformance(keys, fileKey)

\* result.files[fileKey] of one file
fileEntry(keys, fileIssues, detailed) ==
  [keyCount |-> Len(keys),
   issueCount |-> Len(fileIssues),
   issues |-> IF detailed THEN fileIssues
              ELSE Filter(fileIssues,
                          {issue \in Range(fileIssues) : issue.severity = "error"}),
   qualityScore |-> calculateQualityScore(keys, fileIssues)]

\* performHealthCheck's second loop, over the requested files
RECURSIVE checkFiles(_, _, _, _, _)
checkFiles(translations, fileKeys, detailed, issues, resultFiles) ==
  IF fileKeys = <<>> THEN [issues |-> issues, files |-> resultFiles]
  ELSE LET fileKey == Head(fileKeys)
           fileIssues == fileIssuesOf(translations, fileKey)
           entry == fileEntry(getAllKeysWithDetails(translations[fileKey]), fileIssues,
                              detailed)
       IN checkFiles(translations, Tail(fileKeys), detailed, issues \o fileIssues,
                     [pair \in DOMAIN resultFiles \cup {fileKey} |->
                        IF pair = fileKey THEN entry ELSE resultFiles[pair]])

\* translations[this.config.defaultLanguage] is undefined when the default
\* language is not among the requested ones: reading [namespace] of it throws
consistencyThrows(languages, namespaces) ==
  /\ ~Includes(languages, defaultLanguage)
  /\ \E i \in 1..Len(languages) : languages[i] # defaultLanguage
  /\ namespaces # <<>>

summaryOf(issues, resultFiles, fileKeys) ==
  [totalIssues |-> Len(issues),
   errors |-> CountSeverity(issues, "error"),
   warnings |-> CountSeverity(issues, "warning"),
   info |-> CountSeverity(issues, "info"),
   score |-> calculateOverallScore(resultFiles, fileKeys)]

performHealthCheck(w, languages, namespaces, detailed) ==
  LET fileKeys == Product(languages, namespaces)
      loaded == loadTranslations(w, fileKeys, [pair \in Range(fileKeys) |-> Undefined],
                                 <<>>)
      checked == checkFiles(loaded.translations, fileKeys, detailed, loaded.issues,
                            <<>>)
      issues == checked.issues
                  \o performCrossLanguageAnalysis(loaded.translations, languages,
                                                  namespaces)
      summary == summaryOf(issues, checked.files, fileKeys)
  IN IF consistencyThrows(languages, namespaces)
       THEN [results |-> [threw |-> TRUE, error |-> "TypeError"], w |-> loaded.w]
     ELSE [results |-> [threw |-> FALSE, summary |-> summary, files |-> checked.files,
                        issues |-> issues,
                        recommendations |-> generateRecommendations(summary, issues)],
           w |-> loaded.w]

----------------------------------------------------------------------------
(* One health check on a locales directory.                                *)

\* {"a":"Hello {{name}}","b":"x","n_one":"x"}
H1 == Doc(<< <<<<"a">>, "Hello {{name}}">>, <<<<"b">>, "x">>, <<<<"n_one">>, "x">> >>)
\* {"a":"Hola {{name}","n_one":"the end"}
H2 == Doc(<< <<<<"a">>, "Hola {{name}">>, <<<<"n_one">>, "the end">> >>)
\* {"a":"Hola"}
H3 == Doc(<< <<<<"a">>, "Hola">> >>)
\* {"a":"Hola {{ name }}","b":{"a":"<b>Hola</b>"}}
H4 == Doc(<< <<<<"a">>, "Hola {{ name }}">>, <<<<"b", "a">>, "<b>Hola</b>">> >>)
\* {"a":"Hola {{nombre}}"}
H5 == Doc(<< <<<<"a">>, "Hola {{nombre}}">> >>)
\* {"a":"{{name}} y {{name}}","b":1}
H6 == Doc(<< <<<<"a">>, "{{name}} y {{name}}">>, <<<<"b">>, "number">> >>)
\* {"a":null,"b":true}
H7 == Doc(<< <<<<"a">>, "null">>, <<<<"b">>, "boolean">> >>)
\* {"a":[],"b":"x"}
H8 == Doc(<< <<<<"a">>, "array">>, <<<<"b">>, "x">> >>)

\* six keys under a and b, each "Hello {{name}}"
H9 == Doc([i \in 1..6 |->
             <<<<Keys[((i - 1) \div 3) + 1], Keys[((i - 1) % 3) + 1]>>, "Hello {{name}}">>])
\* the same six keys, each "Hola {{name}"
H10 == Doc([i \in 1..6 |->
              <<<<Keys[((i - 1) \div 3) + 1], Keys[((i - 1) % 3) + 1]>>, "Hola {{name}">>])

HealthDocs == {H1, H2, H3, H4, H5, H6, H7, H8, H9, H10, D2}

HealthFileStates(pair) ==
  IF pair = <<"en", "common">>
    THEN {AbsentFile, InvalidFile} \cup {OkFile(doc) : doc \in {H1, H6, H7, H8}}
  ELSE IF pair = <<"es", "common">>
    THEN {AbsentFile, InvalidFile}
           \cup {OkFile(doc) : doc \in {H2, H3, H4, H5, H6, H7, H8, D2}}
  ELSE IF pair = <<"en", "extra">> THEN {AbsentFile, OkFile(H1), OkFile(H9)}
  ELSE {AbsentFile, OkFile(H10)}

HealthLanguageLists == {<<"en">>, <<"es">>, <<"en", "es">>, <<"es", "en">>}

InitHealth ==
  /\ files \in {f \in [Pairs -> {AbsentFile, InvalidFile}
                                  \cup {OkFile(doc) : doc \in HealthDocs}] :
                  \A pair \in Pairs : f[pair] \in HealthFileStates(pair)}
  /\ cache = [pair \in Pairs |-> NoEntry]
  /\ clock = 0
  /\ backupOn = TRUE
  /\ pre = files
  /\ call = [op |-> "none", args |-> <<>>]
  /\ result = <<>>
  /\ saves = <<>>
  /\ operationsInProgress = {}
  /\ procs = [q \in Callers |-> IdleCall]
  /\ watching = FALSE
  /\ events = {}
  /\ server = ServerStart

HealthCheck ==
  /\ Idle
  /\ \E languages \in HealthLanguageLists, namespaces \in NamespaceLists,
     detailed \in BOOLEAN :
    Returns("performHealthCheck",
            [languages |-> languages, namespaces |-> namespaces, detailed |-> detailed],
            performHealthCheck(World, languages, namespaces, detailed))

NextHealth == HealthCheck

SpecHealth == InitHealth /\ [][NextHealth]_vars

----------------------------------------------------------------------------
(* Properties of one call.                                                 *)

TargetPairs == Range(Product(call.args.languages, call.args.namespaces))

\* the key path resolves to a value in the document of the file
Resolves(file, key) == file.kind = "ok" /\ getNestedValue(file.doc, key) # Undefined

ConflictOf(key, pair) ==
  [key |-> key, language |-> pair[1], namespace |-> pair[2],
   existingValue |-> getNestedValue(pre[pair].doc, key)]

SavesTo(pair) == {i \in 1..Len(saves) : saves[i].pair = pair}

\* C1: addKey without overwrite, the key resolving in at least one target
\* pair: success is false, there is exactly one conflict entry per pair where
\* the key exists, no operation is recorded, no save is issued and every
\* document is as it was before the call.
C1_AddKeyConflictAborts ==
  (/\ call.op = "addKey"
   /\ ~call.args.overwrite
   /\ \E pair \in TargetPairs : Resolves(pre[pair], call.args.key))
  => LET existing == {pair \in TargetPairs : Resolves(pre[pair], call.args.key)}
     IN /\ result.success = FALSE
        /\ Range(result.conflicts) = {ConflictOf(call.args.key, pair) : pair \in existing}
        /\ Len(result.conflicts) = Cardinality(existing)
        /\ result.operations = <<>>
        /\ saves = <<>>
        /\ files = pre

C1_Witness ==
  /\ call.op = "addKey"
  /\ ~call.args.overwrite
  /\ Cardinality(TargetPairs) = 4
  /\ Cardinality({pair \in TargetPairs : Resolves(pre[pair], call.args.key)}) = 1
  /\ call.args.key = <<"a", "b">>
  /\ Len(result.conflicts) = 1
  /\ result.success = FALSE

\* C8: renameKey without overwrite, newKey resolving in at least one target
\* pair: success is false with the conflict list, no save is issued and every
\* document, oldKey and its value included, is as it was before the call.
C8_RenameConflictAborts ==
  (/\ call.op = "renameKey"
   /\ ~call.args.overwrite
   /\ \E pair \in TargetPairs : Resolves(pre[pair], call.args.newKey))
  => LET existing == {pair \in TargetPairs : Resolves(pre[pair], call.args.newKey)}
     IN /\ result.success = FALSE
        /\ Range(result.conflicts) =
             {ConflictOf(call.args.newKey, pair) : pair \in existing}
        /\ Len(result.conflicts) = Cardinality(existing)
        /\ saves = <<>>
        /\ \A pair \in TargetPairs :
             /\ files[pair] = pre[pair]
             /\ Resolves(pre[pair], call.args.oldKey) =>
                  getNestedValue(files[pair].doc, call.args.oldKey)
                    = getNestedValue(pre[pair].doc, call.args.oldKey)

C8_Witness ==
  /\ call.op = "renameKey"
  /\ ~call.args.overwrite
  /\ call.args.oldKey # call.args.newKey
  /\ \E pair \in TargetPairs :
       /\ Resolves(pre[pair], call.args.oldKey)
       /\ ~Resolves(pre[pair], call.args.newKey)
  /\ \E pair \in TargetPairs : Resolves(pre[pair], call.args.newKey)
  /\ result.success = FALSE

\* the rename went past the pre-flight conflict check
RenamePassedPreflight ==
  /\ call.op = "renameKey"
  /\ \/ call.args.overwrite
     \/ \A pair \in TargetPairs : ~Resolves(pre[pair], call.args.newKey)

\* C9 as stated: for each target pair whose document holds oldKey exactly one
\* save is issued, and the saved document has oldKey absent and newKey bound
\* to the value oldKey held.
C9_Original ==
  RenamePassedPreflight =>
    \A pair \in TargetPairs :
      Resolves(pre[pair], call.args.oldKey) =>
        /\ Cardinality(SavesTo(pair)) = 1
        /\ \A i \in SavesTo(pair) :
             /\ getNestedValue(saves[i].content, call.args.oldKey) = Undefined
             /\ getNestedValue(saves[i].content, call.args.newKey)
                  = getNestedValue(pre[pair].doc, call.args.oldKey)

\* C9 (amended): for each target pair whose document holds oldKey exactly one
\* save is issued, the saved document has newKey bound to the value oldKey
\* held, and it has oldKey absent unless oldKey is newKey or a prefix of it;
\* the file then holds the saved document.
C9_RenameSingleSave ==
  RenamePassedPreflight =>
    \A pair \in TargetPairs :
      Resolves(pre[pair], call.args.oldKey) =>
        /\ Cardinality(SavesTo(pair)) = 1
        /\ \A i \in SavesTo(pair) :
             /\ getNestedValue(saves[i].content, call.args.newKey)
                  = getNestedValue(pre[pair].doc, call.args.oldKey)
             /\ ~IsPrefix(call.args.oldKey, call.args.newKey) =>
                  getNestedValue(saves[i].content, call.args.oldKey) = Undefined
             /\ files[pair].doc = saves[i].content

C9_Witness ==
  /\ RenamePassedPreflight
  /\ call.args.oldKey = <<"a", "b">>
  /\ call.args.newKey = <<"b", "a">>
  /\ \E pair \in TargetPairs :
       /\ Resolves(pre[pair], call.args.oldKey)
       /\ Cardinality(SavesTo(pair)) = 1
       /\ getNestedValue(files[pair].doc, call.args.newKey) = Leaf("x")
       /\ getNestedValue(files[pair].doc, call.args.oldKey) = Undefined

\* C10: in a rename that went past the pre-flight check, a target pair whose
\* document loads without oldKey gets an error entry naming it and no save,
\* and every target pair whose document holds oldKey is renamed all the same:
\* its file holds at newKey the value oldKey held, and the rename is recorded.
C10_RenameSkipsMissing ==
  RenamePassedPreflight =>
    \A pair \in TargetPairs :
      /\ (pre[pair].kind = "ok" /\ ~Resolves(pre[pair], call.args.oldKey)) =>
           /\ \E i \in 1..Len(result.errors) :
                result.errors[i] = ErrEntry("not found", pair, "")
           /\ SavesTo(pair) = {}
           /\ files[pair] = pre[pair]
      /\ Resolves(pre[pair], call.args.oldKey) =>
           /\ getNestedValue(files[pair].doc, call.args.newKey)
                = getNestedValue(pre[pair].doc, call.args.oldKey)
           /\ \E i \in 1..Len(result.operations) :
                result.operations[i] =
                  OpEntry("rename", call.args.oldKey, call.args.newKey, pair,
                          getNestedValue(pre[pair].doc, call.args.oldKey))

C10_Witness ==
  /\ RenamePassedPreflight
  /\ call.args.oldKey # call.args.newKey
  /\ \E pair \in TargetPairs, other \in TargetPairs :
       /\ pre[pair].kind = "ok"
       /\ ~Resolves(pre[pair], call.args.oldKey)
       /\ Resolves(pre[other], call.args.oldKey)
       /\ Len(result.errors) = 1
       /\ Len(result.operations) = 1
       /\ Len(saves) = 1

\* C2: a syncKeys call that returns success leaves, in every target
\* namespace, every key of the source namespace present, the keys that were
\* missing holding the source value when copyValues is set and the empty
\* string otherwise.
C2_SyncAddsEveryKey ==
  (call.op = "syncKeys" /\ result.success) =>
    LET source == pre[<<call.args.language, call.args.sourceNamespace>>].doc
    IN \A namespace \in Range(call.args.targetNamespaces) :
         LET pair == <<call.args.language, namespace>>
         IN \A key \in Range(getAllKeys(source)) :
              /\ getNestedValue(files[pair].doc, key) # Undefined
              /\ ~Includes(getAllKeys(pre[pair].doc), key) =>
                   getNestedValue(files[pair].doc, key)
                     = IF call.args.copyValues THEN getNestedValue(source, key)
                       ELSE Leaf("")

\* C3: add_translation_key without overwrite, the key resolving in at least
\* one target document: no target document is modified.
C3_AddToolAllOrNothing ==
  LET targets == {<<t[2][1], t[1]>> :
                    t \in Range(Product(call.args.namespaces, call.args.translations))}
  IN (/\ call.op = "add_translation_key"
      /\ ~call.args.overwrite
      /\ \E pair \in targets : Resolves(pre[pair], call.args.key))
     => \A pair \in targets : files[pair] = pre[pair]

\* the arguments a sync tool works with
SyncArgs ==
  IF call.op = "sync_all_missing"
  THEN [sourceLanguage |-> defaultLanguage,
        targetLanguages |-> Filter(Languages, Range(Languages) \ {defaultLanguage}),
        namespaces |-> Namespaces]
  ELSE call.args

\* the tool reports the pair as lacking every key of the source
ReportedAllMissing(pair, sourceKeys) ==
  IF call.op = "get_missing_keys" THEN result.missingKeys[pair] = sourceKeys
  ELSE \E i \in 1..Len(result.operations) :
         /\ result.operations[i].language = pair[1]
         /\ result.operations[i].namespace = pair[2]
         /\ result.operations[i].missingKeys = sourceKeys

\* the tool result carries the parse error of the pair
ParseErrorSurfaced(pair) ==
  /\ call.op # "get_missing_keys"
  /\ \E i \in 1..Len(result.errors) : result.errors[i].cause = "ValidationError"

\* C5: in the sync and missing-key tools a target file that exists but does
\* not parse is not taken for an absent one: the parse error is in the tool
\* result, the file is not reported as lacking every source key, and it is not
\* overwritten.
C5_ParseErrorNotAbsent ==
  call.op \in {"sync_missing_keys", "sync_all_missing", "get_missing_keys"} =>
    \A namespace \in Range(SyncArgs.namespaces) :
      \A language \in Range(SyncArgs.targetLanguages) :
        LET pair == <<language, namespace>>
            source == pre[<<SyncArgs.sourceLanguage, namespace>>]
        IN (source.kind = "ok" /\ pre[pair].kind = "invalid") =>
             /\ files[pair] = pre[pair]
             /\ ~ReportedAllMissing(pair, getAllKeys(source.doc))
             /\ ParseErrorSurfaced(pair)

\* the call adds keys and has no permission to overwrite
AddsWithoutOverwrite ==
  \/ call.op = "addKey" /\ ~call.args.overwrite
  \/ call.op \in {"syncKeys", "sync_missing_keys", "sync_all_missing",
                  "sync_from_source"}

ErrorFor(pair) ==
  \E i \in 1..Len(result.errors) :
    result.errors[i].language = pair[1] /\ result.errors[i].namespace = pair[2]

\* C12: removeKey, for a target pair whose document does not contain the key
\* path, leaves the content of the document unchanged and records no error for
\* the pair; where the key is present it is removed and no ancestor of it is
\* left an empty object.
C12_RemoveMissingIsNoOp ==
  call.op = "removeKey" =>
    \A pair \in TargetPairs :
      /\ (pre[pair].kind = "ok" /\ ~Resolves(pre[pair], call.args.key)) =>
           /\ files[pair].doc = pre[pair].doc
           /\ ~ErrorFor(pair)
      /\ Resolves(pre[pair], call.args.key) =>
           /\ getNestedValue(files[pair].doc, call.args.key) = Undefined
           /\ \A n \in 1..(Len(call.args.key) - 1) :
                LET ancestor == getNestedValue(files[pair].doc,
                                               SubSeq(call.args.key, 1, n))
                IN ~(IsObject(ancestor) /\ OwnKeys(ancestor) = {})

\* C13: in removeKey, renameKey and syncKeys a target whose file does not load
\* gets an error entry, and every other target that has work to do is
\* processed all the same: a save is issued for it.
C13_ContinueOnError ==
  /\ call.op = "removeKey" =>
       \A pair \in TargetPairs :
         /\ pre[pair].kind = "absent" => ErrorFor(pair)
         /\ (pre[pair].kind = "ok" /\ ~deleteThrows(pre[pair].doc, call.args.key))
              => SavesTo(pair) # {}
  /\ RenamePassedPreflight =>
       \A pair \in TargetPairs :
         /\ pre[pair].kind = "absent" => ErrorFor(pair)
         /\ Resolves(pre[pair], call.args.oldKey) => SavesTo(pair) # {}
  /\ (/\ call.op = "syncKeys"
      /\ pre[<<call.args.language, call.args.sourceNamespace>>].kind = "ok") =>
       LET sourceKeys ==
             getAllKeys(pre[<<call.args.language, call.args.sourceNamespace>>].doc)
       IN \A namespace \in Range(call.args.targetNamespaces) :
            LET pair == <<call.args.language, namespace>>
            IN /\ pre[pair].kind = "absent" => ErrorFor(pair)
               /\ (/\ pre[pair].kind = "ok"
                   /\ \E key \in Range(sourceKeys) :
                        ~Includes(getAllKeys(pre[pair].doc), key))
                    => SavesTo(pair) # {}

\* the operations applied one by one in list order, up to and including the
\* first whose result has success = false
RECURSIVE AppliedUntilFailure(_, _, _)
AppliedUntilFailure(w, operations, results) ==
  IF operations = <<>> THEN [results |-> results, w |-> w]
  ELSE LET done == applyOperation(w, Head(operations))
           merged == [success |-> results.success /\ done.results.success,
                      operations |-> results.operations \o done.results.operations,
                      conflicts |-> results.conflicts \o done.results.conflicts,
                      errors |-> results.errors \o done.results.errors]
       IN IF ~done.results.success THEN [results |-> merged, w |-> done.w]
          ELSE AppliedUntilFailure(done.w, Tail(operations), merged)

\* C14: batchOperation with continueOnError = false returns, and leaves on
\* disk, what applying its operations in list order up to and including the
\* first failing one gives: nothing later is applied, nothing is rolled back,
\* and the result merges the results of exactly the operations executed.
C14_BatchStopsAtFirstFailure ==
  (call.op = "batchOperation" /\ ~call.args.continueOnError) =>
    LET before == [files |-> pre, cache |-> [pair \in DOMAIN pre |-> NoEntry],
                   clock |-> 0, saves |-> <<>>]
        expected == AppliedUntilFailure(before, call.args.operations, EmptyResult)
    IN /\ result = expected.results
       /\ files = expected.w.files
       /\ saves = expected.w.saves

\* the health check's call and what it was given
HealthCalled == call.op = "performHealthCheck"
Requested == Product(call.args.languages, call.args.namespaces)
Unloadable(pair) == pre[pair].kind # "ok"

\* the directory with {} in place of every file that does not load
WithEmptyFiles ==
  [files |-> [pair \in DOMAIN pre |->
                IF Unloadable(pair) THEN OkFile(EmptyObject) ELSE pre[pair]],
   cache |-> [pair \in DOMAIN pre |-> NoEntry], clock |-> 0, saves |-> <<>>]

IssuesOf(type, file) ==
  {i \in 1..Len(result.issues) :
     result.issues[i].type = type /\ result.issues[i].file = file}

\* C15: a health check whose languages include the source language returns
\* whatever files fail to load; each requested file that does not load has
\* exactly one file_missing error and no key, and every requested file has an
\* entry in files, which is the entry the check gives when the files that do
\* not load hold {} instead.
C15_MissingFileDoesNotAbort ==
  (HealthCalled /\ Includes(call.args.languages, defaultLanguage)) =>
    /\ ~result.threw
    /\ DOMAIN result.files = Range(Requested)
    /\ \A pair \in Range(Requested) :
         Unloadable(pair) =>
           /\ Cardinality(IssuesOf("file_missing", pair)) = 1
           /\ \A i \in IssuesOf("file_missing", pair) :
                result.issues[i].severity = "error"
           /\ result.files[pair].keyCount = 0
    /\ \A pair \in Range(Requested) :
         ~Unloadable(pair) => IssuesOf("file_missing", pair) = {}
    /\ result.files =
         performHealthCheck(WithEmptyFiles, call.args.languages, call.args.namespaces,
                            call.args.detailed).results.files

\* the source file of a namespace does not load, the target's does and has keys
C15_Witness ==
  /\ HealthCalled
  /\ call.args.languages = <<"en", "es">>
  /\ call.args.namespaces = <<"common", "extra">>
  /\ ~result.threw
  /\ Unloadable(<<"en", "common">>)
  /\ pre[<<"en", "extra">>].kind = "ok"
  /\ result.files[<<"es", "common">>].keyCount > 0
  /\ result.files[<<"en", "extra">>].keyCount > 0

\* the requested languages with a loaded, non-empty document of the namespace
LanguagesWith(namespace) ==
  {lang \in Range(call.args.languages) :
     /\ ~Unloadable(<<lang, namespace>>)
     /\ pre[<<lang, namespace>>].doc # EmptyObject}

CrossLanguageIssues(namespace) ==
  {i \in 1..Len(result.issues) :
     /\ result.issues[i].type = "cross_language_missing_files"
     /\ result.issues[i].details.namespace = namespace}

\* C16: a health check that returns has, for each requested namespace that
\* some requested language has no loaded non-empty document of, exactly one
\* cross_language_missing_files error, listing exactly those languages, and has
\* none for a namespace every requested language has a document of.
C16_MissingFilesPerNamespace ==
  (HealthCalled /\ Includes(call.args.languages, defaultLanguage)) =>
    \A namespace \in Range(call.args.namespaces) :
      IF LanguagesWith(namespace) # Range(call.args.languages)
      THEN /\ Cardinality(CrossLanguageIssues(namespace)) = 1
           /\ \A i \in CrossLanguageIssues(namespace) :
                /\ result.issues[i].severity = "error"
                /\ Range(result.issues[i].details.missingLanguages)
                     = Range(call.args.languages) \ LanguagesWith(namespace)
      ELSE CrossLanguageIssues(namespace) = {}

\* the issues of a severity that the analysis of a file produced
AnalysisIssues(pair, severity) ==
  {i \in 1..Len(result.issues) :
     /\ result.issues[i].file = pair
     /\ result.issues[i].type # "file_missing"
     /\ result.issues[i].severity = severity}

GradeOf(score) ==
  IF score >= 90 THEN "A" ELSE IF score >= 80 THEN "B" ELSE IF score >= 70 THEN "C"
  ELSE IF score >= 60 THEN "D" ELSE "F"

\* C17: in the result of a health check the quality score of every file is
\* 100 - 10 E - 2 W brought into 0..100, E and W being the numbers of errors
\* and of warnings its analysis produced, and its grade is A from 90, B from
\* 80, C from 70, D from 60, else F; 2 errors and 3 warnings give 74 and C.
C17_QualityScore ==
  (HealthCalled /\ ~result.threw) =>
    \A pair \in DOMAIN result.files :
      LET qualityScore == result.files[pair].qualityScore
          E == Cardinality(AnalysisIssues(pair, "error"))
          W == Cardinality(AnalysisIssues(pair, "warning"))
          raw == 100 - 10 * E - 2 * W
      IN /\ qualityScore.score = (IF raw < 0 THEN 0 ELSE IF raw > 100 THEN 100 ELSE raw)
         /\ qualityScore.score \in 0..100
         /\ qualityScore.grade = GradeOf(qualityScore.score)
         /\ (E = 2 /\ W = 3) => (qualityScore.score = 74 /\ qualityScore.grade = "C")

\* a file with 2 errors and 3 warnings beside one whose 12 errors bring the
\* score to 0
C17_Witness ==
  /\ HealthCalled
  /\ ~result.threw
  /\ DOMAIN result.files = Pairs
  /\ Cardinality(AnalysisIssues(<<"es", "common">>, "error")) = 2
  /\ Cardinality(AnalysisIssues(<<"es", "common">>, "warning")) = 3
  /\ result.files[<<"es", "common">>].qualityScore.score = 74
  /\ Cardinality(AnalysisIssues(<<"es", "extra">>, "error")) >= 12
  /\ result.files[<<"es", "extra">>].qualityScore.grade = "F"

\* the flattened key set of a file: the paths of its leaves, none when the
\* file does not load
LeafPaths(pair) ==
  IF Unloadable(pair) THEN {}
  ELSE {node.p : node \in {n \in pre[pair].doc : n.k # "obj"}}

KeyIssues(type, file, key) ==
  {i \in IssuesOf(type, file) : result.issues[i].key = key}

ConsistencyTypes ==
  {"consistency_missing_key", "consistency_orphaned_key", "consistency_type_mismatch",
   "consistency_interpolation_mismatch"}

SourcePair(pair) == <<defaultLanguage, pair[2]>>

\* C18: in the result of a health check whose languages include the source
\* language, a requested file of another language has exactly one
\* consistency_missing_key warning for each key of the source file that it
\* does not have and for no other key, exactly one consistency_orphaned_key
\* info for each of its keys that the source file does not have and for no
\* other key; a file of the source language has no consistency issue.
C18_MissingAndOrphanedKeys ==
  (HealthCalled /\ Includes(call.args.languages, defaultLanguage)) =>
    \A pair \in Range(Requested) :
      IF pair[1] = defaultLanguage
      THEN \A type \in ConsistencyTypes : IssuesOf(type, pair) = {}
      ELSE /\ \A key \in LeafPaths(SourcePair(pair)) \cup LeafPaths(pair) :
                /\ Cardinality(KeyIssues("consistency_missing_key", pair, key))
                     = IF key \in LeafPaths(SourcePair(pair)) \ LeafPaths(pair)
                       THEN 1 ELSE 0
                /\ Cardinality(KeyIssues("consistency_orphaned_key", pair, key))
                     = IF key \in LeafPaths(pair) \ LeafPaths(SourcePair(pair))
                       THEN 1 ELSE 0
           /\ \A i \in IssuesOf("consistency_missing_key", pair) :
                /\ result.issues[i].severity = "warning"
                /\ result.issues[i].key \in LeafPaths(SourcePair(pair))
           /\ \A i \in IssuesOf("consistency_orphaned_key", pair) :
                /\ result.issues[i].severity = "info"
                /\ result.issues[i].key \in LeafPaths(pair)

\* es/common lacks keys of en/common and has a key en/common lacks
C18_Witness ==
  /\ HealthCalled
  /\ ~result.threw
  /\ <<"es", "common">> \in DOMAIN result.files
  /\ pre[<<"en", "common">>] = OkFile(H1)
  /\ pre[<<"es", "common">>] = OkFile(D2)
  /\ KeyIssues("consistency_missing_key", <<"es", "common">>, <<"a">>) # {}
  /\ KeyIssues("consistency_orphaned_key", <<"es", "common">>, <<"a", "b">>) # {}

\* the leaf of a file at a key, and whether it is a string
ValueAt(pair, key) == (CHOOSE node \in pre[pair].doc : node.p = key).k
IsString(k) == k \notin {"obj", "null", "array", "number", "boolean"}

\* the names between {{ and }} in the strings of the documents
NamesIn(text) ==
  CASE text \in {"Hello {{name}}", "Hola {{ name }}", "{{name}} y {{name}}"} -> {"name"}
    [] text = "Hola {{nombre}}" -> {"nombre"}
    [] OTHER -> {}

NameChars(name) ==
  IF name = "name" THEN <<"n", "a", "m", "e">> ELSE <<"n", "o", "m", "b", "r", "e">>

\* C19: in the result of a health check whose languages include the source
\* language, a key that holds a string in the source file and in a requested
\* file of another language has exactly one consistency_interpolation_mismatch
\* error in that file if the two strings' sets of {{name}} names differ and
\* none if they are equal; the error's details.missing holds the source's
\* names that the target lacks and details.extra the target's names that the
\* source lacks ("Hello {{name}}" against "Hola": missing ["name"], extra []).
C19_InterpolationMismatch ==
  (HealthCalled /\ Includes(call.args.languages, defaultLanguage)) =>
    \A pair \in Range(Requested) :
      \A key \in LeafPaths(SourcePair(pair)) \cap LeafPaths(pair) :
        LET sourceValue == ValueAt(SourcePair(pair), key)
            targetValue == ValueAt(pair, key)
            sourceNames == NamesIn(sourceValue)
            targetNames == NamesIn(targetValue)
            mismatches == KeyIssues("consistency_interpolation_mismatch", pair, key)
        IN (pair[1] # defaultLanguage /\ IsString(sourceValue) /\ IsString(targetValue)) =>
             /\ Cardinality(mismatches) = IF sourceNames # targetNames THEN 1 ELSE 0
             /\ \A i \in mismatches :
                  /\ result.issues[i].severity = "error"
                  /\ Range(result.issues[i].details.missing)
                       = {NameChars(name) : name \in sourceNames \ targetNames}
                  /\ Range(result.issues[i].details.extra)
                       = {NameChars(name) : name \in targetNames \ sourceNames}
                  /\ (sourceValue = "Hello {{name}}" /\ targetValue = "Hola") =>
                       /\ result.issues[i].details.missing = <<NameChars("name")>>
                       /\ result.issues[i].details.extra = <<>>

\* "Hello {{name}}" against "Hola"
C19_Witness ==
  /\ HealthCalled
  /\ ~result.threw
  /\ call.args.languages = <<"en", "es">>
  /\ call.args.namespaces = <<"common">>
  /\ pre[<<"en", "common">>] = OkFile(H1)
  /\ pre[<<"es", "common">>] = OkFile(H3)
  /\ KeyIssues("consistency_interpolation_mismatch", <<"es", "common">>, <<"a">>) # {}

\* the JSON type of a leaf
JsonType(k) == IF IsString(k) THEN "string" ELSE k

\* C20: in the result of a health check whose languages include the source
\* language, a key that is a leaf in the source file and in a requested file
\* of another language has a consistency_type_mismatch error in that file if
\* the JSON types of the two leaves differ, and has none if they are equal.
C20_TypeMismatch ==
  (HealthCalled /\ Includes(call.args.languages, defaultLanguage)) =>
    \A pair \in Range(Requested) :
      \A key \in LeafPaths(SourcePair(pair)) \cap LeafPaths(pair) :
        pair[1] # defaultLanguage =>
          ((KeyIssues("consistency_type_mismatch", pair, key) # {})
             <=> (JsonType(ValueAt(SourcePair(pair), key)) # JsonType(ValueAt(pair, key))))

----------------------------------------------------------------------------
(* The translation store, await by await.  Each caller runs one            *)
(* loadTranslationFile or saveTranslationFile at a time; a step is the     *)
(* code between two awaits, together with the file system operation whose  *)
(* completion it awaited.  Other programs write the files too.             *)

MaxClock == 2

StorePairs == {<<"en", "common">>, <<"es", "common">>}
StoreDocs == {D1, D2}

InFlight == {"load_stat", "load_read", "save_backup", "save_write", "save_stat"}

Throws(q, err) ==
  [procs[q] EXCEPT !.pc = "threw", !.content = Undefined, !.returned = Leaf(err)]

\* the cache entry of the pair is replaced or deleted: the objects handed out
\* before are no longer the cache's
Detached(ps, pair) ==
  [q \in Callers |-> IF ps[q].pair = pair THEN [ps[q] EXCEPT !.live = FALSE]
                     ELSE ps[q]]

\* chokidar reports every change of a watched file
Notify(pair) == IF watching THEN events \cup {pair} ELSE events

\* loadTranslationFile up to its first await: the in-progress guard
LoadStart(q, pair) ==
  /\ procs[q].pc = "idle"
  /\ IF pair \in operationsInProgress
       THEN /\ procs' = [procs EXCEPT ![q] = [Throws(q, "busy") EXCEPT !.pair = pair]]
            /\ UNCHANGED operationsInProgress
       ELSE /\ operationsInProgress' = operationsInProgress \cup {pair}
            /\ procs' = [procs EXCEPT ![q] = [IdleCall EXCEPT !.pc = "load_stat",
                                                              !.pair = pair]]
  /\ UNCHANGED <<files, cache, clock, backupOn, pre, call, result, saves, server,
                 watching, events>>

\* fs.stat resolves: the cached entry is returned when it is not older than
\* the file, else the file is read
LoadStat(q) ==
  LET pair == procs[q].pair
      stats == files[pair]
      cached == cache[pair]
  IN /\ procs[q].pc = "load_stat"
     /\ IF stats.kind = "absent"
          THEN /\ procs' = [procs EXCEPT ![q] = Throws(q, "FileSystemError")]
               /\ operationsInProgress' = operationsInProgress \ {pair}
        ELSE IF cached.has /\ cached.mtime >= stats.mtime
          THEN /\ procs' = [procs EXCEPT ![q].pc = "returned",
                                         ![q].returned = cached.doc,
                                         ![q].live = TRUE]
               /\ operationsInProgress' = operationsInProgress \ {pair}
        ELSE /\ procs' = [procs EXCEPT ![q].pc = "load_read",
                                       ![q].stats = stats.mtime]
             /\ UNCHANGED operationsInProgress
     /\ UNCHANGED <<files, cache, clock, backupOn, pre, call, result, saves, server,
                    watching, events>>

\* fs.readFile resolves: parse, cache.set, return the object put in the cache
LoadRead(q) ==
  LET pair == procs[q].pair
      file == files[pair]
  IN /\ procs[q].pc = "load_read"
     /\ operationsInProgress' = operationsInProgress \ {pair}
     /\ IF file.kind = "absent"
          THEN /\ procs' = [procs EXCEPT ![q] = Throws(q, "FileSystemError")]
               /\ UNCHANGED cache
        ELSE IF file.kind = "invalid"
          THEN /\ procs' = [procs EXCEPT ![q] = Throws(q, "ValidationError")]
               /\ UNCHANGED cache
        ELSE /\ cache' = [cache EXCEPT ![pair] =
                            [has |-> TRUE, doc |-> file.doc,
                             mtime |-> procs[q].stats]]
             /\ procs' = [Detached(procs, pair) EXCEPT ![q].pc = "returned",
                                                      ![q].returned = file.doc,
                                                      ![q].live = TRUE]
     /\ UNCHANGED <<files, clock, backupOn, pre, call, result, saves, server,
                    watching, events>>

\* saveTranslationFile up to its first await; it does not look at
\* operationsInProgress
SaveStart(q, pair, content) ==
  /\ procs[q].pc = "idle"
  /\ procs' = [procs EXCEPT ![q] = [IdleCall EXCEPT !.pc = "save_backup",
                                                    !.pair = pair,
                                                    !.content = content]]
  /\ UNCHANGED <<files, cache, clock, backupOn, pre, call, result, saves, server,
                 operationsInProgress, watching, events>>

\* createBackup and fs.mkdir resolve
SaveBackup(q) ==
  /\ procs[q].pc = "save_backup"
  /\ procs' = [procs EXCEPT ![q] =
                 IF backupOn /\ files[procs[q].pair].kind = "absent"
                 THEN Throws(q, "FileSystemError")
                 ELSE [procs[q] EXCEPT !.pc = "save_write"]]
  /\ UNCHANGED <<files, cache, clock, backupOn, pre, call, result, saves, server,
                 operationsInProgress, watching, events>>

\* fs.writeFile resolves
SaveWrite(q) ==
  LET pair == procs[q].pair
  IN /\ procs[q].pc = "save_write"
     /\ clock < MaxClock
     /\ clock' = clock + 1
     /\ files' = [files EXCEPT ![pair] = [kind |-> "ok", doc |-> procs[q].content,
                                          mtime |-> clock + 1]]
     /\ events' = Notify(pair)
     /\ procs' = [procs EXCEPT ![q].pc = "save_stat"]
     /\ UNCHANGED <<cache, backupOn, pre, call, result, saves, server,
                    operationsInProgress, watching>>

\* fs.stat resolves: cache.set with the content saved and the time found
SaveStat(q) ==
  LET pair == procs[q].pair
      stats == files[pair]
  IN /\ procs[q].pc = "save_stat"
     /\ IF stats.kind = "absent"
          THEN /\ procs' = [procs EXCEPT ![q] = Throws(q, "FileSystemError")]
               /\ UNCHANGED cache
        ELSE /\ cache' = [cache EXCEPT ![pair] =
                            [has |-> TRUE, doc |-> procs[q].content,
                             mtime |-> stats.mtime]]
             /\ procs' = [Detached(procs, pair) EXCEPT ![q].pc = "saved"]
     /\ UNCHANGED <<files, clock, backupOn, pre, call, result, saves, server,
                    operationsInProgress, watching, events>>

\* the caller is done with what the call gave it
Finish(q) ==
  /\ procs[q].pc \in {"returned", "mutated", "saved", "threw"}
  /\ procs' = [procs EXCEPT ![q] = IdleCall]
  /\ UNCHANGED <<files, cache, clock, backupOn, pre, call, result, saves, server,
                 operationsInProgress, watching, events>>

\* the caller assigns into the content it was handed: the object is the
\* cache entry's while that entry has not been replaced
MutateReturned(q) ==
  LET pair == procs[q].pair
      changed == PutProp(procs[q].returned, "b", Leaf("m"))
  IN /\ procs[q].pc = "returned"
     /\ IF procs[q].live
          THEN /\ cache' = [cache EXCEPT ![pair].doc = changed]
               /\ procs' = [r \in Callers |->
                              IF r = q THEN [procs[q] EXCEPT !.pc = "mutated",
                                                             !.returned = changed]
                              ELSE IF procs[r].pair = pair /\ procs[r].live
                                THEN [procs[r] EXCEPT !.returned = changed]
                              ELSE procs[r]]
          ELSE /\ procs' = [procs EXCEPT ![q].pc = "mutated",
                                         ![q].returned = changed]
               /\ UNCHANGED cache
     /\ UNCHANGED <<files, clock, backupOn, pre, call, result, saves, server,
                    operationsInProgress, watching, events>>

\* another program rewrites or deletes a translation file
ExternalWrite(pair, kind, doc) ==
  /\ clock < MaxClock
  /\ clock' = clock + 1
  /\ files' = [files EXCEPT ![pair] =
                 IF kind = "absent" THEN AbsentFile
                 ELSE [kind |-> kind, doc |-> doc, mtime |-> clock + 1]]
  /\ files'[pair] # files[pair]
  /\ events' = Notify(pair)
  /\ UNCHANGED <<cache, backupOn, pre, call, result, saves, server,
                 operationsInProgress, procs, watching>>

watchFiles ==
  /\ ~watching
  /\ watching' = TRUE
  /\ UNCHANGED <<files, cache, clock, backupOn, pre, call, result, saves, server,
                 operationsInProgress, procs, events>>

\* the watcher's 'change' and 'unlink' handlers: invalidateCache(filePath)
invalidateCache(pair) ==
  /\ pair \in events
  /\ events' = events \ {pair}
  /\ cache' = [cache EXCEPT ![pair] = NoEntry]
  /\ procs' = Detached(procs, pair)
  /\ UNCHANGED <<files, clock, backupOn, pre, call, result, saves, server,
                 operationsInProgress, watching>>

InitStore ==
  /\ files = [pair \in Pairs |-> OkFile(D1)]
  /\ cache = [pair \in Pairs |-> NoEntry]
  /\ clock = 0
  /\ backupOn \in BOOLEAN
  /\ pre = files
  /\ call = [op |-> "none", args |-> <<>>]
  /\ result = <<>>
  /\ saves = <<>>
  /\ operationsInProgress = {}
  /\ procs = [q \in Callers |-> IdleCall]
  /\ watching = FALSE
  /\ events = {}
  /\ server = ServerStart

StoreCalls ==
  \E q \in Callers :
    \/ \E pair \in StorePairs : LoadStart(q, pair)
    \/ LoadStat(q)
    \/ LoadRead(q)
    \/ \E pair \in StorePairs, content \in StoreDocs : SaveStart(q, pair, content)
    \/ SaveBackup(q)
    \/ SaveWrite(q)
    \/ SaveStat(q)
    \/ Finish(q)

ExternalWrites ==
  \E pair \in StorePairs :
    \/ \E doc \in StoreDocs : ExternalWrite(pair, "ok", doc)
    \/ ExternalWrite(pair, "invalid", Undefined)
    \/ ExternalWrite(pair, "absent", Undefined)

Watcher == watchFiles \/ \E pair \in StorePairs : invalidateCache(pair)

NextStore == StoreCalls \/ ExternalWrites \/ Watcher

SpecStore == InitStore /\ [][NextStore]_vars

\* loads only, on files nothing writes, by callers that may assign into what
\* they were handed
NextAlias ==
  \E q \in Callers :
    \/ \E pair \in StorePairs : LoadStart(q, pair)
    \/ LoadStat(q)
    \/ LoadRead(q)
    \/ MutateReturned(q)
    \/ Finish(q)

SpecAlias == InitStore /\ [][NextAlias]_vars

\* C4: at most one load or save is in flight for a (language, namespace) key
\* at any time.
C4_OneInFlightPerKey ==
  \A pair \in Pairs :
    Cardinality({q \in Callers : procs[q].pc \in InFlight /\ procs[q].pair = pair}) <= 1

\* C6: while the file on disk is unchanged, a load returns the content of the
\* file whatever callers did to the content objects earlier loads handed them.
C6_LoadReturnsSnapshot ==
  [][\A q \in Callers :
       (/\ procs[q].pc \in {"load_stat", "load_read"}
        /\ procs'[q].pc = "returned"
        /\ files[procs[q].pair] = pre[procs[q].pair])
       => procs'[q].returned = pre[procs[q].pair].doc]_vars

\* C7: a load that completes returns the content stored in the file at that
\* time, never an older content kept in the cache.
C7_LoadReturnsFileContent ==
  [][\A q \in Callers :
       (procs[q].pc \in {"load_stat", "load_read"} /\ procs'[q].pc = "returned")
       => procs'[q].returned = files[procs[q].pair].doc]_vars

----------------------------------------------------------------------------
(* Documents in the order of their members.  A JavaScript value is a       *)
(* string, an array of values, or an object, the object written as the     *)
(* sequence of its properties <<key, value>> in the order they were        *)
(* created.  The text of a JSON file, which JSON.stringify(_, null, 2)     *)
(* lays out in one way only, is written as the tree of its members in the  *)
(* order of the text.                                                      *)

Str(s) == [t |-> "string", s |-> s, props |-> <<>>]
Arr(elements) == [t |-> "array", s |-> "", props |-> elements]
Obj(props) == [t |-> "object", s |-> "", props |-> props]

CodeUnit(c) ==
  CASE c = "0" -> 48 [] c = "1" -> 49 [] c = "9" -> 57 [] c = "a" -> 97 [] c = "b" -> 98

\* the order of Array.prototype.sort without a comparator: by UTF-16 code
\* units, a proper prefix first
RECURSIVE CodeUnitsLess(_, _)
CodeUnitsLess(a, b) ==
  IF b = <<>> THEN FALSE
  ELSE IF a = <<>> THEN TRUE
  ELSE IF CodeUnit(Head(a)) # CodeUnit(Head(b)) THEN CodeUnit(Head(a)) < CodeUnit(Head(b))
  ELSE CodeUnitsLess(Tail(a), Tail(b))

LexLess(a, b) == CodeUnitsLess(Characters(a), Characters(b))

\* keys.sort()
RECURSIVE sortKeys(_)
sortKeys(keys) ==
  IF keys = {} THEN <<>>
  ELSE LET first == CHOOSE k \in keys : \A other \in keys \ {k} : LexLess(k, other)
       IN <<first>> \o sortKeys(keys \ {first})

\* an integer index: a canonical numeric string, which an object enumerates
\* before its other keys and in ascending numeric order
IsIndex(key) ==
  LET cs == Characters(key)
  IN /\ cs # <<>>
     /\ \A i \in 1..Len(cs) : cs[i] \in Digits
     /\ (Len(cs) > 1 => cs[1] # "0")

RECURSIVE IndexValueOf(_, _)
IndexValueOf(cs, acc) ==
  IF cs = <<>> THEN acc ELSE IndexValueOf(Tail(cs), 10 * acc + CodeUnit(Head(cs)) - 48)

IndexValue(key) == IndexValueOf(Characters(key), 0)

RECURSIVE ascending(_)
ascending(keys) ==
  IF keys = {} THEN <<>>
  ELSE LET first == CHOOSE k \in keys :
                      \A other \in keys \ {k} : IndexValue(k) < IndexValue(other)
       IN <<first>> \o ascending(keys \ {first})

\* Object.keys(obj): the integer indices in ascending order, then the other
\* keys in the order of their creation
ownKeys(obj) ==
  LET created == [i \in 1..Len(obj.props) |-> obj.props[i][1]]
  IN ascending({k \in Range(created) : IsIndex(k)})
       \o Filter(created, {k \in Range(created) : ~IsIndex(k)})

\* obj[key]
valueOf(obj, key) ==
  obj.props[CHOOSE i \in 1..Len(obj.props) : obj.props[i][1] = key][2]

\* obj[key] = value: a new property is created last, an existing one keeps
\* its place
assign(obj, key, value) ==
  IF \E i \in 1..Len(obj.props) : obj.props[i][1] = key
  THEN Obj([i \in 1..Len(obj.props) |->
              IF obj.props[i][1] = key THEN <<key, value>> ELSE obj.props[i]])
  ELSE Obj(Append(obj.props, <<key, value>>))

RECURSIVE sortObjectKeys(_)
RECURSIVE sortInto(_, _, _)
\* the loop of sortObjectKeys over the sorted keys
sortInto(sorted, obj, keys) ==
  IF keys = <<>> THEN sorted
  ELSE LET key == Head(keys)
           value == valueOf(obj, key)
       IN sortInto(assign(sorted, key,
                          IF value.t = "object" THEN sortObjectKeys(value) ELSE value),
                   obj, Tail(keys))

\* content is an object: a translation document
sortObjectKeys(obj) ==
  IF obj.t = "string" THEN obj
  ELSE sortInto(Obj(<<>>), obj, sortKeys(Range(ownKeys(obj))))

\* JSON.stringify(value, null, 2): the members of an object in the order of
\* Object.keys, the elements of an array in their order
RECURSIVE stringify(_)
stringify(value) ==
  IF value.t = "string" THEN [j |-> "string", s |-> value.s, members |-> <<>>]
  ELSE IF value.t = "array"
    THEN [j |-> "array", s |-> "",
          members |-> [i \in 1..Len(value.props) |-> stringify(value.props[i])]]
  ELSE LET keys == ownKeys(value)
       IN [j |-> "object", s |-> "",
           members |-> [i \in 1..Len(keys) |->
                          <<keys[i], stringify(valueOf(value, keys[i]))>>]]

\* JSON.parse(text): the properties of an object are created in the order of
\* the text
RECURSIVE parse(_)
RECURSIVE parseMembers(_, _)
parseMembers(obj, members) ==
  IF members = <<>> THEN obj
  ELSE parseMembers(assign(obj, Head(members)[1], parse(Head(members)[2])),
                    Tail(members))

parse(text) ==
  IF text.j = "string" THEN Str(text.s)
  ELSE IF text.j = "array"
    THEN Arr([i \in 1..Len(text.members) |-> parse(text.members[i])])
  ELSE parseMembers(Obj(<<>>), text.members)

----------------------------------------------------------------------------
(* Saving a document, loading it back and saving it again, the file        *)
(* holding the text written.                                               *)

SortKeys == {"a", "b", "9", "10"}

\* the sequences of at most n distinct elements of S
Distinct(S, n) ==
  {seq \in UNION {[1..k -> S] : k \in 0..n} :
     \A i, j \in DOMAIN seq : i # j => seq[i] # seq[j]}

InnerObjects ==
  {Obj([i \in 1..Len(ks) |-> <<ks[i], Str("x")>>]) : ks \in Distinct(SortKeys, 2)}

SortValues ==
  {Str("x")} \cup InnerObjects
    \cup {Arr(<<Obj([i \in 1..2 |-> <<ks[i], Str("x")>>])>>) : ks \in {<<"a", "b">>, <<"b", "a">>}}

\* documents of at most two members, created in any order
SortDocs ==
  UNION {{Obj([i \in 1..Len(ks) |-> <<ks[i], vs[i]>>]) : vs \in [1..Len(ks) -> SortValues]} :
           ks \in Distinct(SortKeys, 2)}

SortPair == <<"en", "common">>

\* saveTranslationFile on a document with its members in order
saveSorted(content, createBackup) ==
  LET sortedContent == sortObjectKeys(content)
      jsonString == stringify(sortedContent)
  IN IF createBackup /\ backupOn /\ files[SortPair].kind = "absent"
       THEN /\ result' = "FileSystemError"
            /\ UNCHANGED <<files, cache, clock>>
     ELSE /\ result' = "saved"
          /\ clock' = clock + 1
          /\ files' = [files EXCEPT ![SortPair] =
                         [kind |-> "ok", doc |-> jsonString, mtime |-> clock + 1]]
          /\ cache' = [cache EXCEPT ![SortPair] =
                         [has |-> TRUE, doc |-> sortedContent, mtime |-> clock + 1]]

\* what loadTranslationFile returns for a file that save has written
loadSorted ==
  IF cache[SortPair].has /\ cache[SortPair].mtime >= files[SortPair].mtime
  THEN cache[SortPair].doc
  ELSE parse(files[SortPair].doc)

InitSort ==
  /\ files = [pair \in Pairs |-> AbsentFile]
  /\ cache = [pair \in Pairs |-> NoEntry]
  /\ clock = 0
  /\ backupOn \in BOOLEAN
  /\ pre = files
  /\ call = [op |-> "none", args |-> <<>>]
  /\ result = <<>>
  /\ saves = <<>>
  /\ operationsInProgress = {}
  /\ procs = [q \in Callers |-> IdleCall]
  /\ watching = FALSE
  /\ events = {}
  /\ server = ServerStart

SaveDocument ==
  /\ call.op = "none"
  /\ \E content \in SortDocs, createBackup \in BOOLEAN :
       /\ call' = [op |-> "saveTranslationFile",
                   args |-> [content |-> content, createBackup |-> createBackup]]
       /\ saveSorted(content, createBackup)
  /\ UNCHANGED <<backupOn, pre, saves, storeVars, server>>

clearCache ==
  /\ call.op = "saveTranslationFile"
  /\ cache[SortPair].has
  /\ cache' = [pair \in Pairs |-> NoEntry]
  /\ UNCHANGED <<files, clock, backupOn, pre, call, result, saves, storeVars, server>>

\* the file is loaded and what the load returned is saved
LoadAndSave ==
  /\ call.op = "saveTranslationFile"
  /\ result = "saved"
  /\ \E createBackup \in BOOLEAN :
       /\ call' = [op |-> "loadAndSave",
                   args |-> [content |-> loadSorted, createBackup |-> createBackup]]
       /\ saveSorted(loadSorted, createBackup)
  /\ pre' = files
  /\ UNCHANGED <<backupOn, saves, storeVars, server>>

NextSort == SaveDocument \/ clearCache \/ LoadAndSave

SpecSort == InitSort /\ [][NextSort]_vars

\* the members of every object of a text are in ascending order of their keys
RECURSIVE SortedText(_)
SortedText(text) ==
  IF text.j = "string" THEN TRUE
  ELSE IF text.j = "array"
    THEN \A i \in 1..Len(text.members) : SortedText(text.members[i])
  ELSE /\ \A i \in 1..Len(text.members) : SortedText(text.members[i][2])
       /\ \A i, k \in 1..Len(text.members) :
            i < k => LexLess(text.members[i][1], text.members[k][1])

\* C21: the text saveTranslationFile writes has the keys of every object, at
\* every nesting level, in lexicographic order, and saving what loading the
\* file returns writes the same text again.
C21_SortedFixedPoint ==
  /\ (call.op \in {"saveTranslationFile", "loadAndSave"} /\ result = "saved")
       => SortedText(files[SortPair].doc)
  /\ (call.op = "loadAndSave" /\ result = "saved")
       => files[SortPair].doc = pre[SortPair].doc

----------------------------------------------------------------------------
(* Key paths as the strings they are.  getAllKeys joins the key names of a *)
(* path with '.', and setNestedValue splits the string at every '.'; here  *)
(* a key name is the sequence of its characters, so that a name may hold a *)
(* dot.                                                                    *)

\* path.split('.')
RECURSIVE splitDots(_)
splitDots(path) ==
  IF \A i \in 1..Len(path) : path[i] # "." THEN <<path>>
  ELSE LET dot == CHOOSE i \in 1..Len(path) :
                    path[i] = "." /\ \A k \in 1..(i - 1) : path[k] # "."
       IN <<SubSeq(path, 1, dot - 1)>> \o splitDots(SubSeq(path, dot + 1, Len(path)))

\* getAllKeys, each key with the value found at it: depth-first over the
\* entries of obj, a non-null object that is not an array is descended into
RECURSIVE flattenIn(_, _, _, _)
flattenIn(obj, prefix, ks, names) ==
  IF ks = <<>> THEN <<>>
  ELSE LET key == Head(ks)
           value == Prop(obj, key)
           fullKey == IF prefix # <<>> THEN prefix \o <<".">> \o key ELSE key
       IN (IF ~HasProp(obj, key) THEN <<>>
           ELSE IF Kind(value) = "obj" THEN flattenIn(value, fullKey, names, names)
           ELSE <<<<fullKey, value>>>>)
          \o flattenIn(obj, prefix, Tail(ks), names)

\* a document rebuilt from flattened entries, each set at its key
RECURSIVE rebuild(_, _)
rebuild(obj, entries) ==
  IF entries = <<>> THEN obj
  ELSE rebuild(setNestedValue(obj, splitDots(Head(entries)[1]), Head(entries)[2]),
               Tail(entries))

\* key names, in the order a sorted file lists them
RoundTripKeys == << <<"a">>, <<"a", ".", "b">>, <<"b">> >>

\* the object with the members of f
ObjectOf(f) ==
  EmptyObject
    \cup UNION {{[p |-> <<key>> \o e.p, k |-> e.k] : e \in f[key]} : key \in DOMAIN f}

ObjectsOver(keys, values) ==
  {ObjectOf(f) : f \in UNION {[S -> values] : S \in SUBSET keys}}

RoundTripLeaves == {Leaf("x"), Leaf("null"), Leaf("array")}

RoundTripDocs ==
  ObjectsOver(Range(RoundTripKeys),
              RoundTripLeaves \cup ObjectsOver({<<"a">>, <<"b">>}, {Leaf("x")}))

InitRoundTrip ==
  /\ files = [pair \in Pairs |-> AbsentFile]
  /\ cache = [pair \in Pairs |-> NoEntry]
  /\ clock = 0
  /\ backupOn = TRUE
  /\ pre = files
  /\ call \in {[op |-> "none", args |-> [obj |-> doc]] : doc \in RoundTripDocs}
  /\ result = <<>>
  /\ saves = <<>>
  /\ operationsInProgress = {}
  /\ procs = [q \in Callers |-> IdleCall]
  /\ watching = FALSE
  /\ events = {}
  /\ server = ServerStart

Flatten ==
  /\ call.op = "none"
  /\ call' = [call EXCEPT !.op = "getAllKeys"]
  /\ result' = flattenIn(call.args.obj, <<>>, RoundTripKeys, RoundTripKeys)
  /\ UNCHANGED <<files, cache, clock, backupOn, pre, saves, storeVars, server>>

Rebuild ==
  /\ call.op = "getAllKeys"
  /\ call' = [call EXCEPT !.op = "setNestedValue"]
  /\ result' = rebuild(EmptyObject, result)
  /\ UNCHANGED <<files, cache, clock, backupOn, pre, saves, storeVars, server>>

NextRoundTrip == Flatten \/ Rebuild

SpecRoundTrip == InitRoundTrip /\ [][NextRoundTrip]_vars

\* C22: the document rebuilt from the flattened entries of a document, by
\* setting each key path to its value, is the document (as a tree, whatever
\* the order of its members).
C22_KeyPathRoundTrip ==
  call.op = "setNestedValue" => result = call.args.obj

----------------------------------------------------------------------------
(* One sync of a namespace from the source language to the other languages *)
(* of the configuration.                                                   *)

SyncLanguages == <<"en", "es", "ca">>
SyncPairs == {<<language, "common">> : language \in Range(SyncLanguages)}
SyncFileStates == {AbsentFile, InvalidFile, OkFile(D1), OkFile(D2)}
SyncTargetLists == {<<"es">>, <<"es", "ca">>, <<"ca", "es">>}

InitSync ==
  /\ files \in [SyncPairs -> SyncFileStates]
  /\ cache = [pair \in SyncPairs |-> NoEntry]
  /\ clock = 0
  /\ backupOn \in BOOLEAN
  /\ pre = files
  /\ call = [op |-> "none", args |-> <<>>]
  /\ result = <<>>
  /\ saves = <<>>
  /\ operationsInProgress = {}
  /\ procs = [q \in Callers |-> IdleCall]
  /\ watching = FALSE
  /\ events = {}
  /\ server = ServerStart

SyncToLanguages ==
  /\ Idle
  /\ \E targetLanguages \in SyncTargetLists, placeholder \in {"", "v"},
     dryRun \in BOOLEAN, createBackup \in BOOLEAN :
    LET parsed == [sourceLanguage |-> defaultLanguage,
                   targetLanguages |-> targetLanguages,
                   namespaces |-> <<"common">>, placeholder |-> placeholder,
                   dryRun |-> dryRun, createBackup |-> createBackup]
    IN Returns("sync_missing_keys", parsed, handleSyncMissingKeys(World, parsed))

NextSync == SyncToLanguages

SpecSync == InitSync /\ [][NextSync]_vars

\* the flattened key set of a document on disk
KeysOnDisk(file) == IF file.kind = "ok" THEN Range(getAllKeys(file.doc)) ELSE {}

\* a target of the list that the sync has something to do for
NeedsSync(language) ==
  \/ pre[<<language, "common">>].kind = "absent"
  \/ /\ pre[<<language, "common">>].kind = "ok"
     /\ ~(KeysOnDisk(pre[<<defaultLanguage, "common">>])
            \subseteq KeysOnDisk(pre[<<language, "common">>]))

\* C23: after a sync_missing_keys that is not a dry run and whose source file
\* loads, every target file that was absent exists and has every key of the
\* source, and every target language later in the list that lacks a file or
\* keys has its operation in the result.
C23_AbsentTargetCreated ==
  (/\ call.op = "sync_missing_keys"
   /\ ~call.args.dryRun
   /\ pre[<<defaultLanguage, "common">>].kind = "ok") =>
    \A i \in 1..Len(call.args.targetLanguages) :
      LET target == <<call.args.targetLanguages[i], "common">>
      IN pre[target].kind = "absent" =>
           /\ files[target].kind = "ok"
           /\ KeysOnDisk(pre[<<defaultLanguage, "common">>]) \subseteq KeysOnDisk(files[target])
           /\ \A j \in (i + 1)..Len(call.args.targetLanguages) :
                NeedsSync(call.args.targetLanguages[j]) =>
                  \E n \in 1..Len(result.operations) :
                    result.operations[n].language = call.args.targetLanguages[j]

----------------------------------------------------------------------------
\* The server's tool-call handler.  A request is followed from its arrival
\* through ensureInitialized and the tool's own handler to its response; the
\* awaits are the points where another request can be taken up.

\* milliseconds that pass between two observations of the clock
TickMs == 10000

MaxElapsed == operationTimeout + TickMs

ToolNames == {"get_project_info", "unknown_tool"}

AllManagers == {"fileManager", "healthChecker", "keyManager", "analyticsEngine",
                "scannerIntegration"}

Pending(q) == server.requests[q].pc \notin {"idle", "responded"}

Responded(q) == server.requests[q].pc = "responded"

\* the handler's return: the tool's result, or the catch block's isError response
respond(srv, q, isError, text) ==
  [srv EXCEPT !.requests[q].pc = "responded",
              !.requests[q].response = [isError |-> isError, text |-> text]]

\* the switch on the tool's name, once ensureInitialized has returned
dispatch(srv, q) ==
  IF srv.requests[q].name = "get_project_info"
    THEN [srv EXCEPT !.requests[q].pc = "operation"]
    ELSE respond(srv, q, TRUE, "Error: Unknown tool")

\* a catch block that leaves the managers as the attempt constructed them
initializationFailed_KeepsManagers(srv, q, message) ==
  respond([srv EXCEPT !.isInitializing = FALSE], q, TRUE, message)

\* ensureInitialized's catch and finally blocks, and the handler's catch
initializationFailed(srv, q, message) ==
  respond([srv EXCEPT !.managers = {}, !.isInitializing = FALSE],
          q, TRUE, message)

\* a tool call arrives: the handler runs up to its first await
CallTool(q, name) ==
  /\ ~Pending(q)
  /\ LET srv == [server EXCEPT !.requests[q] = [NoRequest EXCEPT !.name = name]]
     IN server' =
          IF srv.isInitializing
            THEN respond(srv, q, TRUE,
                         "Unexpected error: Initialization already in progress")
          ELSE IF "fileManager" \notin srv.managers
            THEN IF srv.initializationAttempts >= maxInitializationAttempts
                   THEN respond(srv, q, TRUE,
                                "Unexpected error: Failed to initialize after 3 attempts")
                   ELSE [srv EXCEPT !.isInitializing = TRUE,
                                    !.initializationAttempts = @ + 1,
                                    !.requests[q].pc = "loadConfig"]
          ELSE dispatch(srv, q)
  /\ UNCHANGED <<files, cache, clock, backupOn, pre, call, result, saves,
                 operationsInProgress, procs, watching, events>>

\* configManager.loadConfig() settles; on success the file manager and the
\* health checker are constructed
LoadConfig(q, ok) ==
  /\ server.requests[q].pc = "loadConfig"
  /\ server' =
       IF ok THEN [server EXCEPT !.managers = {"fileManager", "healthChecker"},
                                 !.requests[q].pc = "importKeyManager"]
       ELSE initializationFailed(server, q, "Error: Invalid configuration")
  /\ UNCHANGED <<files, cache, clock, backupOn, pre, call, result, saves,
                 operationsInProgress, procs, watching, events>>

ImportKeyManager(q) ==
  /\ server.requests[q].pc = "importKeyManager"
  /\ server' = [server EXCEPT !.managers = @ \cup {"keyManager"},
                              !.requests[q].pc = "importAnalytics"]
  /\ UNCHANGED <<files, cache, clock, backupOn, pre, call, result, saves,
                 operationsInProgress, procs, watching, events>>

ImportAnalytics(q) ==
  /\ server.requests[q].pc = "importAnalytics"
  /\ server' = [server EXCEPT !.managers = @ \cup {"analyticsEngine",
                                                   "scannerIntegration"},
                              !.requests[q].pc = "ensureDirectoryStructure"]
  /\ UNCHANGED <<files, cache, clock, backupOn, pre, call, result, saves,
                 operationsInProgress, procs, watching, events>>

\* fileManager.ensureDirectoryStructure() settles: on success every absent
\* file of the configuration has been created as '{}', the attempts are
\* reset and the tool's handler is entered; a failing mkdir rejects it
EnsureDirectoryStructure(q, ok) ==
  /\ server.requests[q].pc = "ensureDirectoryStructure"
  /\ IF ok
       THEN /\ files' = [pair \in Pairs |->
                           IF files[pair].kind = "absent"
                             THEN [kind |-> "ok", doc |-> EmptyObject,
                                   mtime |-> clock + 1]
                             ELSE files[pair]]
            /\ clock' = IF files' = files THEN clock ELSE clock + 1
            /\ server' = dispatch([server EXCEPT !.initializationAttempts = 0,
                                                 !.isInitializing = FALSE], q)
       ELSE /\ server' = initializationFailed(server, q,
                           "Error: Failed to ensure directory structure")
            /\ UNCHANGED <<files, clock>>
  /\ UNCHANGED <<cache, backupOn, pre, call, result, saves,
                 operationsInProgress, procs, watching, events>>

\* the tool's own work settles, if it ever does: handleGetProjectInfo
\* returns the project's description, or the file system's error is caught
OperationSettles(q, ok) ==
  /\ server.requests[q].pc = "operation"
  /\ server' = IF ok THEN respond(server, q, FALSE, "projectInfo")
               ELSE respond(server, q, TRUE, "Error: Failed to get file stats")
  /\ UNCHANGED <<files, cache, clock, backupOn, pre, call, result, saves,
                 operationsInProgress, procs, watching, events>>

\* time passes for every request in flight
Tick ==
  /\ \E q \in Callers : Pending(q) /\ server.requests[q].elapsed < MaxElapsed
  /\ server' = [server EXCEPT !.requests =
                  [q \in Callers |->
                     IF Pending(q)
                       THEN [server.requests[q] EXCEPT
                               !.elapsed = Min(@ + TickMs, MaxElapsed)]
                       ELSE server.requests[q]]]
  /\ UNCHANGED <<files, cache, clock, backupOn, pre, call, result, saves,
                 operationsInProgress, procs, watching, events>>

\* withTimeout's timer: it rejects the race once timeoutMs have passed.  No
\* handler passes its operation to withTimeout, so no step of the server
\* takes this action
withTimeout(q) ==
  /\ Pending(q)
  /\ server.requests[q].elapsed >= operationTimeout
  /\ server' = respond(server, q, TRUE,
                       "Unexpected error: Operation timed out after 30000ms")
  /\ UNCHANGED <<files, cache, clock, backupOn, pre, call, result, saves,
                 operationsInProgress, procs, watching, events>>

InitServer ==
  /\ files \in {[pair \in Pairs |-> IF pair \in absent THEN AbsentFile ELSE OkFile(D1)] :
                 absent \in {{}, {<<"es", "common">>}, Pairs}}
  /\ cache = [pair \in Pairs |-> NoEntry]
  /\ clock = 0
  /\ backupOn = TRUE
  /\ pre = files
  /\ call = [op |-> "none", args |-> <<>>]
  /\ result = <<>>
  /\ saves = <<>>
  /\ operationsInProgress = {}
  /\ procs = [q \in Callers |-> IdleCall]
  /\ watching = FALSE
  /\ events = {}
  /\ server = ServerStart

Initialization(q) ==
  \/ \E ok \in BOOLEAN : LoadConfig(q, ok)
  \/ ImportKeyManager(q)
  \/ ImportAnalytics(q)
  \/ \E ok \in BOOLEAN : EnsureDirectoryStructure(q, ok)

NextServer ==
  \/ \E q \in Callers, name \in ToolNames : CallTool(q, name)
  \/ \E q \in Callers : Initialization(q)
  \/ \E q \in Callers, ok \in BOOLEAN : OperationSettles(q, ok)
  \/ Tick

SpecServer == InitServer /\ [][NextServer]_vars

\* The event loop runs every continuation whose promise has settled, the
\* configuration load, the imports and the directory creation settle, and
\* time passes.  Nothing obliges the tool's own operation to settle.
SpecServerLive ==
  /\ SpecServer
  /\ WF_vars(Tick)
  /\ \A q \in Callers : WF_vars(Initialization(q))

TimedOut(q) == Pending(q) /\ server.requests[q].elapsed >= operationTimeout

\* C24: a tool call whose operation has not completed within operationTimeout
\* is answered (with a timeout error) rather than left pending
C24_WatchdogBoundsEveryCall ==
  \A q \in Callers : TimedOut(q) ~> Responded(q)

InitStages == {"loadConfig", "importKeyManager", "importAnalytics",
               "ensureDirectoryStructure"}

InitializationErrors == {"Error: Invalid configuration",
                         "Error: Failed to ensure directory structure"}

\* an initialization attempt of request q ends in this step, by a throw
AttemptFailed(q) ==
  /\ server.requests[q].pc \in InitStages
  /\ server'.requests[q].pc = "responded"
  /\ server'.requests[q].response.text \in InitializationErrors

\* an initialization attempt of request q ends in this step, completed
AttemptSucceeded(q) ==
  /\ server.requests[q].pc = "ensureDirectoryStructure"
  /\ server'.requests[q].pc \notin InitStages
  /\ server'.requests[q].response.text \notin InitializationErrors

\* request q is answered in this step
Answered(q) ==
  /\ server'.requests[q] # server.requests[q]
  /\ server'.requests[q].pc = "responded"

Exhausted ==
  /\ server.initializationAttempts = maxInitializationAttempts
  /\ ~server.isInitializing
  /\ "fileManager" \notin server.managers

Initialized == "fileManager" \in server.managers /\ ~server.isInitializing

\* C30: initializationAttempts never exceeds maxInitializationAttempts; a
\* failed attempt leaves every manager null and isInitializing false; after
\* three failed attempts in a row every later tool call is answered with an
\* error and no attempt is made; a successful attempt resets the counter to 0
\* and no initialization is attempted afterwards
C30_InitializationRetry ==
  /\ [](server.initializationAttempts <= maxInitializationAttempts)
  /\ [][\A q \in Callers :
          /\ AttemptFailed(q) =>
               /\ server'.managers = {}
               /\ ~server'.isInitializing
               /\ server'.initializationAttempts = server.initializationAttempts
          /\ AttemptSucceeded(q) =>
               /\ server'.initializationAttempts = 0
               /\ server'.managers = AllManagers
               /\ ~server'.isInitializing
          /\ Exhausted =>
               /\ server'.initializationAttempts = maxInitializationAttempts
               /\ server'.managers = {}
               /\ ~server'.isInitializing
               /\ server'.requests[q].pc \notin InitStages
               /\ Answered(q) => server'.requests[q].response.isError
          /\ Initialized =>
               /\ server'.initializationAttempts = 0
               /\ server'.managers = AllManagers
               /\ ~server'.isInitializing
               /\ server'.requests[q].pc \notin InitStages]_vars

\* the third attempt has failed and a later call was refused without a fourth
C30_Witness ==
  /\ Exhausted
  /\ \E q \in Callers :
       /\ Responded(q)
       /\ server.requests[q].response.text =
            "Unexpected error: Failed to initialize after 3 attempts"
  /\ \E q \in Callers : server.requests[q].response.text \in InitializationErrors

----------------------------------------------------------------------------
\* C28: performHealthCheck returns a result and does not throw, whatever
\* languages and namespaces are requested, the lists without the default
\* language included
C28_HealthCheckNeverThrows ==
  HealthCalled => ~result.threw

\* the entries of result.issues of a severity whose file field is the file
FileIssues(pair, severity) ==
  {i \in 1..Len(result.issues) :
     result.issues[i].file = pair /\ result.issues[i].severity = severity}

\* C29: in the result of a health check the errorCount and the warningCount
\* of every file's quality score are the numbers of errors and of warnings
\* in result.issues whose file field is that file
C29_PerFileAccounting ==
  (HealthCalled /\ ~result.threw) =>
    \A pair \in DOMAIN result.files :
      /\ result.files[pair].qualityScore.errorCount
           = Cardinality(FileIssues(pair, "error"))
      /\ result.files[pair].qualityScore.warningCount
           = Cardinality(FileIssues(pair, "warning"))

----------------------------------------------------------------------------
(* The scanner integration (I18nextScannerIntegration): one run of the     *)
(* scanner command.  Texts are sequences of characters.                    *)

startsWith(s, literal) == MatchesAt(s, 1, literal)

endsWith(s, literal) == MatchesAt(s, Len(s) - Len(literal) + 1, literal)

\* s.replace(literal, ''): the first occurrence removed
replace(s, literal) ==
  IF ~includes(s, literal) THEN s
  ELSE LET i == CHOOSE i \in 1..(Len(s) + 1) :
                  /\ MatchesAt(s, i, literal)
                  /\ \A j \in 1..(i - 1) : ~MatchesAt(s, j, literal)
       IN SubSeq(s, 1, i - 1) \o SubSeq(s, i + Len(literal), Len(s))

\* the index of the first character of s from position i on that is in the
\* set, Len(s) + 1 when there is none
RECURSIVE indexOfAny(_, _, _)
indexOfAny(s, i, set) ==
  IF i > Len(s) \/ s[i] \in set THEN i ELSE indexOfAny(s, i + 1, set)

\* stdout.split('\n')
RECURSIVE splitLines(_)
splitLines(s) ==
  LET i == indexOfAny(s, 1, {"\n"})
  IN IF i > Len(s) THEN <<s>>
     ELSE <<SubSeq(s, 1, i - 1)>> \o splitLines(SubSeq(s, i + 1, Len(s)))

\* [...new Set(items)]: the first occurrence of each item, in order
RECURSIVE unique(_)
unique(items) ==
  IF items = <<>> THEN <<>>
  ELSE LET rest == unique(Front(items))
       IN IF Includes(rest, items[Len(items)]) THEN rest
          ELSE Append(rest, items[Len(items)])

\* the single quote, the double quote and the back quote, which is written out
Quotes == {"'", "\"", "backquote"}

\* trimmedLine.match(/^"([^"]+)":\s*"[^"]*"$/): the key it captures, if any
jsonMatch(line) ==
  LET close == indexOfAny(line, 2, {"\""})
      open == indexOfAny(line, close + 2, {c \in Range(line) : c \notin WhiteSpace})
  IN IF /\ startsWith(line, <<"\"">>)
        /\ close > 2
        /\ MatchesAt(line, close, <<"\"", ":">>)
        /\ MatchesAt(line, open, <<"\"">>)
        /\ indexOfAny(line, open + 1, {"\""}) = Len(line)
       THEN <<SubSeq(line, 2, close - 1)>>
     ELSE <<>>

\* trimmedLine.match(...): every t( followed by a quote (single, double or
\* back), one or more characters that are not quotes, a quote and ), taken
\* left to right, and of each match the characters between the quotes
RECURSIVE tFunctionMatch(_, _)
tFunctionMatch(line, i) ==
  IF i > Len(line) THEN <<>>
  ELSE LET close == indexOfAny(line, i + 3, Quotes)
       IN IF /\ MatchesAt(line, i, <<"t", "(">>)
             /\ i + 2 <= Len(line)
             /\ line[i + 2] \in Quotes
             /\ close > i + 3
             /\ MatchesAt(line, close + 1, <<")">>)
            THEN <<SubSeq(line, i + 3, close - 1)>> \o tFunctionMatch(line, close + 2)
          ELSE tFunctionMatch(line, i + 1)

\* the keys one line of the scanner's output gives
keysOfLine(line) ==
  LET trimmedLine == trim(line)
      found == trim(replace(trimmedLine, Characters("Found key:")))
      listed == trim(replace(trimmedLine, Characters("- ")))
  IN (IF startsWith(trimmedLine, Characters("Found key:")) /\ found # <<>>
        THEN <<found>> ELSE <<>>)
     \o (IF /\ startsWith(trimmedLine, Characters("- "))
            /\ ~includes(trimmedLine, Characters(".tsx"))
            /\ ~includes(trimmedLine, Characters(".ts"))
            /\ ~includes(trimmedLine, Characters(".js"))
            /\ listed # <<>>
            /\ ~includes(listed, Characters("/"))
           THEN <<listed>> ELSE <<>>)
     \o jsonMatch(trimmedLine)
     \o tFunctionMatch(trimmedLine, 1)

parseExtractedKeys(outputLines) ==
  LET keys == Concat([i \in 1..Len(outputLines) |-> keysOfLine(outputLines[i])])
  IN unique(Filter(keys, {key \in Range(keys) : Len(key) > 0}))

\* the files one line of the scanner's output names
filesOfLine(line) ==
  LET trimmedLine == trim(line)
      processed == trim(replace(trimmedLine, Characters("Processing file:")))
      listed == trim(replace(trimmedLine, Characters("- ")))
      extensions == {Characters(".ts"), Characters(".tsx"), Characters(".js"),
                     Characters(".jsx"), Characters(".vue")}
  IN IF \/ includes(trimmedLine, Characters(".tsx"))
        \/ includes(trimmedLine, Characters(".ts"))
        \/ includes(trimmedLine, Characters(".js"))
        \/ includes(trimmedLine, Characters(".jsx"))
       THEN (IF startsWith(trimmedLine, Characters("Processing file:"))
                  /\ processed # <<>>
               THEN <<processed>> ELSE <<>>)
            \o (IF /\ startsWith(trimmedLine, Characters("- "))
                   /\ \/ includes(trimmedLine, Characters("/"))
                      \/ includes(trimmedLine, Characters("\\"))
                   /\ listed # <<>>
                  THEN <<listed>> ELSE <<>>)
            \o (IF /\ \A i \in 1..Len(trimmedLine) : trimmedLine[i] \notin WhiteSpace
                   /\ \E extension \in extensions :
                        /\ endsWith(trimmedLine, extension)
                        /\ Len(trimmedLine) > Len(extension)
                  THEN <<trimmedLine>> ELSE <<>>)
     ELSE <<>>

parseAffectedFiles(outputLines) ==
  unique(Concat([i \in 1..Len(outputLines) |-> filesOfLine(outputLines[i])]))

\* the command scanCodebase hands to exec
commandOf(options) ==
  IF options.extract THEN "npm run i18n:extract"
  ELSE IF options.clean THEN "npm run i18n:clean"
  ELSE IF options.namespace # "" THEN "I18N_NAMESPACE=namespace npx gulp i18n:scan-namespace"
  ELSE "npm run i18n:scan"

\* a stderr that says 'warning' in any case taken for a warning
scanCodebase_AnyCase(options, executed, scanTime) ==
  LET outputLines == splitLines(executed.stdout)
      extractedKeys == parseExtractedKeys(outputLines)
  IN IF executed.rejected
       THEN [success |-> FALSE, extractedKeys |-> <<>>, totalKeys |-> 0,
             affectedFiles |-> <<>>, errors |-> <<executed.message>>,
             scanTime |-> scanTime,
             outputPath |-> IF options.extract THEN "./temp-i18n-extract/" ELSE ""]
     ELSE [success |-> TRUE, extractedKeys |-> extractedKeys,
           totalKeys |-> Len(extractedKeys),
           affectedFiles |-> parseAffectedFiles(outputLines),
           errors |-> IF executed.stderr # <<>>
                           /\ ~includes(toLowerCase(executed.stderr),
                                        toLowerCase(Characters("Warning")))
                      THEN <<executed.stderr>> ELSE <<>>,
           scanTime |-> scanTime,
           outputPath |-> IF options.extract THEN "./temp-i18n-extract/" ELSE ""]

\* scanCodebase, given how exec settled and the time it took; outputPath is
\* "" where the result has none
scanCodebase(options, executed, scanTime) ==
  LET outputLines == splitLines(executed.stdout)
      extractedKeys == parseExtractedKeys(outputLines)
  IN IF executed.rejected
       THEN [success |-> FALSE, extractedKeys |-> <<>>, totalKeys |-> 0,
             affectedFiles |-> <<>>, errors |-> <<executed.message>>,
             scanTime |-> scanTime,
             outputPath |-> IF options.extract THEN "./temp-i18n-extract/" ELSE ""]
     ELSE [success |-> TRUE, extractedKeys |-> extractedKeys,
           totalKeys |-> Len(extractedKeys),
           affectedFiles |-> parseAffectedFiles(outputLines),
           errors |-> IF executed.stderr # <<>>
                           /\ ~includes(executed.stderr, Characters("Warning"))
                      THEN <<executed.stderr>> ELSE <<>>,
           scanTime |-> scanTime,
           outputPath |-> IF options.extract THEN "./temp-i18n-extract/" ELSE ""]

----------------------------------------------------------------------------
(* One scan of the code base.                                              *)

\* the lines joined by line feeds
RECURSIVE Lines(_)
Lines(texts) ==
  IF texts = <<>> THEN <<>>
  ELSE IF Len(texts) = 1 THEN Characters(Head(texts))
  ELSE Characters(Head(texts)) \o <<"\n">> \o Lines(Tail(texts))

ScanOptions ==
  {[extract |-> extract, clean |-> clean, namespace |-> namespace] :
     extract \in BOOLEAN, clean \in BOOLEAN, namespace \in {"", "common"}}

Stdouts ==
  {Lines(<<>>),
   Lines(<<"Scan completed", "">>),
   Lines(<<"Found key: a", "- b", "Found key: a", "Found key:">>),
   Lines(<<"Processing file: src/App.tsx", "\"a\": \"x\"", "t('a') t(\"b\")">>),
   Lines(<<"- src/App.tsx", "src/App.tsx", "- b">>)}

Stderrs == {Characters(""), Characters("Warning: deprecated"),
            Characters("warning: x"), Characters("Error: file not found")}

Executions ==
  {[rejected |-> TRUE, message |-> Characters("Command failed"), stdout |-> <<>>,
    stderr |-> <<>>]}
    \cup {[rejected |-> FALSE, message |-> <<>>, stdout |-> stdout, stderr |-> stderr] :
            stdout \in Stdouts, stderr \in Stderrs}

InitScanner ==
  /\ files = [pair \in Pairs |-> OkFile(D1)]
  /\ cache = [pair \in Pairs |-> NoEntry]
  /\ clock = 0
  /\ backupOn = TRUE
  /\ pre = files
  /\ call = [op |-> "none", args |-> <<>>]
  /\ result = <<>>
  /\ saves = <<>>
  /\ operationsInProgress = {}
  /\ procs = [q \in Callers |-> IdleCall]
  /\ watching = FALSE
  /\ events = {}
  /\ server = ServerStart

ScanCodebase ==
  /\ Idle
  /\ \E options \in ScanOptions, executed \in Executions, scanTime \in {0, 100} :
       /\ call' = [op |-> "scanCodebase",
                   args |-> [options |-> options, command |-> commandOf(options),
                             executed |-> executed]]
       /\ result' = scanCodebase(options, executed, scanTime)
  /\ UNCHANGED <<files, cache, clock, backupOn, pre, saves, storeVars, server>>

NextScanner == ScanCodebase

SpecScanner == InitScanner /\ [][NextScanner]_vars

\* C26: scanCodebase resolves whatever the command does: with success false,
\* the failure's message among the errors and totalKeys 0 when the command
\* fails; with success true when it completes, stderr being among the errors
\* exactly when it is not empty and does not contain 'Warning'
C26_ScanNeverRejects ==
  call.op = "scanCodebase" =>
    LET executed == call.args.executed
    IN /\ DOMAIN result = {"success", "extractedKeys", "totalKeys", "affectedFiles",
                           "errors", "scanTime", "outputPath"}
       /\ executed.rejected =>
            /\ ~result.success
            /\ Includes(result.errors, executed.message)
            /\ result.totalKeys = 0
       /\ ~executed.rejected =>
            /\ result.success
            /\ Includes(result.errors, executed.stderr)
                 <=> /\ executed.stderr # <<>>
                     /\ \A i \in 1..Len(executed.stderr) :
                          ~MatchesAt(executed.stderr, i, <<"W", "a", "r", "n", "i", "n", "g">>)
            /\ \A i \in 1..Len(result.errors) : result.errors[i] = executed.stderr

\* the command completed with a stderr that says 'warning' in lower case and
\* an output that names keys
C26_Witness ==
  /\ call.op = "scanCodebase"
  /\ ~call.args.executed.rejected
  /\ call.args.executed.stderr = Characters("warning: x")
  /\ result.errors = <<Characters("warning: x")>>
  /\ result.totalKeys = 2

----------------------------------------------------------------------------
(* The scanner integration's own sync.  It reads and writes the files with *)
(* fs, past the translation store and its cache.                           *)

\* readJSONFile: the parsed content, null when the file cannot be read or is
\* not JSON
readJSONFile(w, pair) ==
  IF w.files[pair].kind = "ok" THEN w.files[pair].doc ELSE Leaf("null")

writeJSONFile(w, pair, data) ==
  [w EXCEPT !.clock = @ + 1,
            !.files[pair] = [kind |-> "ok", doc |-> data, mtime |-> w.clock + 1]]

\* for (const key in obj): an object that is not null and not an array is
\* descended into, anything else is a key
RECURSIVE flattenKeysIn(_, _, _)
flattenKeysIn(obj, prefix, ks) ==
  IF ks = <<>> THEN <<>>
  ELSE LET key == Head(ks)
           fullKey == prefix \o <<key>>
       IN (IF ~HasProp(obj, key) THEN <<>>
           ELSE IF Kind(Prop(obj, key)) = "obj"
             THEN flattenKeysIn(Prop(obj, key), fullKey, Keys)
           ELSE <<fullKey>>)
          \o flattenKeysIn(obj, prefix, Tail(ks))

flattenKeys(obj) == flattenKeysIn(obj, <<>>, Keys)

\* the scanner integration's getNestedValue
RECURSIVE scannerGetNestedValue(_, _)
scannerGetNestedValue(obj, path) ==
  IF path = <<>> THEN obj
  ELSE IF Kind(obj) \in {"obj", "array"} /\ HasProp(obj, Head(path))
    THEN scannerGetNestedValue(Prop(obj, Head(path)), Tail(path))
  ELSE Undefined

\* the scanner integration's setNestedValue: a step into null
\* (typeof null === 'object') makes the next access throw a TypeError
RECURSIVE scannerSetThrows(_, _)
scannerSetThrows(obj, path) ==
  IF Kind(obj) = "null" THEN TRUE
  ELSE IF Len(path) = 1 THEN FALSE
  ELSE LET key == Head(path)
       IN IF ~HasProp(obj, key) \/ Kind(Prop(obj, key)) \notin {"obj", "null", "array"}
            THEN FALSE
          ELSE scannerSetThrows(Prop(obj, key), Tail(path))

RECURSIVE scannerSetNestedValue(_, _, _)
scannerSetNestedValue(obj, path, value) ==
  IF Len(path) = 1 THEN PutProp(obj, Head(path), value)
  ELSE LET key == Head(path)
           current == IF ~HasProp(obj, key)
                           \/ Kind(Prop(obj, key)) \notin {"obj", "null", "array"}
                      THEN EmptyObject ELSE Prop(obj, key)
       IN PutProp(obj, key, scannerSetNestedValue(current, Tail(path), value))

\* syncMissingKeys, the keys missing from one target set in its data
RECURSIVE scannerAddMissing(_, _, _, _)
scannerAddMissing(targetData, sourceData, missingKeys, placeholder) ==
  IF missingKeys = <<>> THEN [threw |-> FALSE, data |-> targetData]
  ELSE LET key == Head(missingKeys)
       IN IF scannerGetNestedValue(sourceData, key) = Undefined
            THEN scannerAddMissing(targetData, sourceData, Tail(missingKeys),
                                   placeholder)
          ELSE IF scannerSetThrows(targetData, key)
            THEN [threw |-> TRUE, data |-> targetData]
          ELSE scannerAddMissing(
                 scannerSetNestedValue(targetData, key, Leaf(placeholder)),
                 sourceData, Tail(missingKeys), placeholder)

\* a sync that writes whether or not it runs dry
writeUnlessDryRun_Always(w, pair, data, dryRun) == writeJSONFile(w, pair, data)

\* if (!options.dryRun) { mkdir; writeJSONFile }
writeUnlessDryRun(w, pair, data, dryRun) ==
  IF dryRun THEN w ELSE writeJSONFile(w, pair, data)

\* changes[pair] = count
Changed(changes, pair, count) ==
  [p \in DOMAIN changes \cup {pair} |-> IF p = pair THEN count ELSE changes[p]]

\* syncMissingKeys, the loop over the target languages of one namespace
RECURSIVE scannerLanguagesLoop(_, _, _, _, _, _, _, _)
scannerLanguagesLoop(w, ns, sourceData, targetLanguages, placeholder, dryRun, changes, errors) ==
  IF targetLanguages = <<>> THEN [changes |-> changes, errors |-> errors, w |-> w]
  ELSE LET pair == <<Head(targetLanguages), ns>>
           read == readJSONFile(w, pair)
           targetData == IF Truthy(read) THEN read ELSE EmptyObject
           sourceKeys == flattenKeys(sourceData)
           targetKeys == flattenKeys(targetData)
           missingKeys == Filter(sourceKeys, {key \in Range(sourceKeys) :
                                                ~Includes(targetKeys, key)})
           added == scannerAddMissing(targetData, sourceData, missingKeys, placeholder)
       IN IF Len(missingKeys) = 0
            THEN scannerLanguagesLoop(w, ns, sourceData, Tail(targetLanguages),
                                      placeholder, dryRun, changes, errors)
          ELSE IF added.threw
            THEN scannerLanguagesLoop(w, ns, sourceData, Tail(targetLanguages),
                                      placeholder, dryRun, changes,
                                      Append(errors, ErrEntry("process", pair,
                                                              "TypeError")))
          ELSE scannerLanguagesLoop(
                 writeUnlessDryRun(w, pair, added.data, dryRun),
                 ns, sourceData, Tail(targetLanguages), placeholder, dryRun,
                 Changed(changes, pair, Len(missingKeys)), errors)

\* syncMissingKeys, the loop over the namespaces
RECURSIVE scannerNamespacesLoop(_, _, _, _, _, _, _, _)
scannerNamespacesLoop(w, sourceLanguage, targetLanguages, namespaces, placeholder, dryRun, changes, errors) ==
  IF namespaces = <<>> THEN [changes |-> changes, errors |-> errors, w |-> w]
  ELSE LET ns == Head(namespaces)
           sourceData == readJSONFile(w, <<sourceLanguage, ns>>)
           done == scannerLanguagesLoop(w, ns, sourceData, targetLanguages,
                                        placeholder, dryRun, changes, errors)
       IN IF ~Truthy(sourceData)
            THEN scannerNamespacesLoop(w, sourceLanguage, targetLanguages,
                   Tail(namespaces), placeholder, dryRun, changes,
                   Append(errors, ErrEntry("source not found",
                                           <<sourceLanguage, ns>>, "")))
          ELSE scannerNamespacesLoop(done.w, sourceLanguage, targetLanguages,
                 Tail(namespaces), placeholder, dryRun, done.changes, done.errors)

\* options.field || fallback, for a field of options that may be absent
Option(options, field, fallback) ==
  IF field \in DOMAIN options THEN options[field] ELSE fallback

\* I18nextScannerIntegration.syncMissingKeys, given how the scanner command
\* it starts with settled
syncMissingKeys(w, options, executed) ==
  LET sourceLanguage == Option(options, "sourceLanguage", defaultLanguage)
      targetLanguages ==
        Option(options, "targetLanguages",
               Filter(Languages, Range(Languages) \ {sourceLanguage}))
      namespaces == Option(options, "namespaces", Namespaces)
      placeholder == Option(options, "placeholder", "{{TRANSLATE_ME}}")
      dryRun == Option(options, "dryRun", FALSE)
      scanResult == scanCodebase([extract |-> FALSE, clean |-> FALSE, namespace |-> ""],
                                 executed, 0)
      done == scannerNamespacesLoop(w, sourceLanguage, targetLanguages, namespaces,
                                    placeholder, dryRun, <<>>, <<>>)
  IN IF ~scanResult.success
       THEN [results |-> [success |-> FALSE, changes |-> <<>>,
                          errors |-> <<[what |-> "scan", language |-> "", namespace |-> "",
                                       cause |-> ""]>>],
             w |-> w]
     ELSE [results |-> [success |-> Len(done.errors) = 0, changes |-> done.changes,
                        errors |-> done.errors],
           w |-> done.w]

----------------------------------------------------------------------------
(* One sync on a locales directory, by either tool or by the scanner       *)
(* integration.                                                            *)

DryRunFileStates(pair) ==
  IF pair = <<"es", "common">> THEN FileStates \cup {OkFile(D4)} ELSE FileStates

ScannerSyncOptions ==
  {[dryRun |-> dryRun] : dryRun \in BOOLEAN}
    \cup {[dryRun |-> dryRun, sourceLanguage |-> "es", namespaces |-> <<"common">>] :
            dryRun \in BOOLEAN}
    \cup {[dryRun |-> dryRun, targetLanguages |-> <<"es", "es">>, placeholder |-> "v"] :
            dryRun \in BOOLEAN}

ScannerExecutions ==
  {[rejected |-> TRUE, message |-> Characters("Command failed"), stdout |-> <<>>,
    stderr |-> <<>>],
   [rejected |-> FALSE, message |-> <<>>, stdout |-> Lines(<<"Found key: a">>),
    stderr |-> <<>>]}

InitDryRun ==
  /\ files \in {f \in [Pairs -> {AbsentFile, InvalidFile, OkFile(D1), OkFile(D2),
                                  OkFile(D4)}] :
                  \A pair \in Pairs : f[pair] \in DryRunFileStates(pair)}
  /\ cache = [pair \in Pairs |-> NoEntry]
  /\ clock = 0
  /\ backupOn \in BOOLEAN
  /\ pre = files
  /\ call = [op |-> "none", args |-> <<>>]
  /\ result = <<>>
  /\ saves = <<>>
  /\ operationsInProgress = {}
  /\ procs = [q \in Callers |-> IdleCall]
  /\ watching = FALSE
  /\ events = {}
  /\ server = ServerStart

ScannerSyncMissingKeys ==
  /\ Idle
  /\ \E options \in ScannerSyncOptions, executed \in ScannerExecutions :
       Returns("syncMissingKeys", [options |-> options, executed |-> executed,
                                   dryRun |-> options.dryRun],
               syncMissingKeys(World, options, executed))

NextDryRun == SyncMissingKeys \/ SyncAllMissing \/ ScannerSyncMissingKeys

SpecDryRun == InitDryRun /\ [][NextDryRun]_vars

\* what the sync was asked for, the defaults filled in
SyncSource ==
  IF call.op = "sync_missing_keys" THEN call.args.sourceLanguage
  ELSE IF call.op = "sync_all_missing" THEN defaultLanguage
  ELSE Option(call.args.options, "sourceLanguage", defaultLanguage)

SyncTargets ==
  IF call.op = "sync_missing_keys" THEN Range(call.args.targetLanguages)
  ELSE IF call.op = "sync_all_missing" THEN Range(Languages) \ {defaultLanguage}
  ELSE Range(Option(call.args.options, "targetLanguages",
                    Filter(Languages, Range(Languages) \ {SyncSource})))

SyncNamespaces ==
  IF call.op = "sync_missing_keys" THEN Range(call.args.namespaces)
  ELSE IF call.op = "sync_all_missing" THEN Range(Namespaces)
  ELSE Range(Option(call.args.options, "namespaces", Namespaces))

\* the keys of the source's document that the target's document on disk
\* lacks: what a sync is to add to the target
MissingOnDisk(pair) ==
  KeysOnDisk(pre[<<SyncSource, pair[2]>>]) \ KeysOnDisk(pre[pair])

\* the targets of the sync whose source file is read
SyncedPairs ==
  {pair \in SyncTargets \X SyncNamespaces : pre[<<SyncSource, pair[2]>>].kind = "ok"}

\* the operations a tool's result lists for a pair
OperationsFor(pair) ==
  {i \in 1..Len(result.operations) :
     /\ result.operations[i].language = pair[1]
     /\ result.operations[i].namespace = pair[2]}

\* the same sync without dryRun, from the same directory
RealRun ==
  LET w == [files |-> pre, cache |-> [pair \in Pairs |-> NoEntry], clock |-> 0,
            saves |-> <<>>]
  IN IF call.op = "sync_missing_keys"
       THEN handleSyncMissingKeys(w, [call.args EXCEPT !.dryRun = FALSE])
     ELSE IF call.op = "sync_all_missing"
       THEN handleSyncAllMissing(w, [call.args EXCEPT !.dryRun = FALSE])
     ELSE syncMissingKeys(w, [call.args.options EXCEPT !.dryRun = FALSE],
                          call.args.executed)

----------------------------------------------------------------------------
\* C27: in every result of addKey, removeKey, renameKey, syncKeys and
\* batchOperation, success = true implies that the errors and the conflicts
\* are both empty
C27_SuccessMeansNoErrors ==
  (call.op \in {"addKey", "removeKey", "renameKey", "syncKeys", "batchOperation"}
     /\ result.success) =>
    /\ result.errors = <<>>
    /\ result.conflicts = <<>>

====
